---------------------------- MODULE Spec2Model ----------------------------
(***************************************************************************)
(* NovaIR runtime: the scorer (src/runtime/scorer.py), the state manager   *)
(* (src/runtime/state.py) and the engine (src/runtime/engine.py).          *)
(*                                                                         *)
(* Python floats are modelled by exact rationals <<n, d>> (d > 0, lowest   *)
(* terms); Optional[X] by a sequence of length 0 (None) or 1.              *)
(***************************************************************************)
EXTENDS Integers, Sequences, FiniteSets, TLC

(***************************************************************************)
(* Rational arithmetic standing for the float operations of the scorer.    *)
(***************************************************************************)
RECURSIVE Gcd(_, _)
Gcd(a, b) == IF b = 0 THEN a ELSE Gcd(b, a % b)

IAbs(n) == IF n < 0 THEN -n ELSE n

Rat(n, d) ==
    LET s == IF d < 0 THEN -1 ELSE 1
        g == Gcd(IAbs(n), IAbs(d))
    IN  <<(s * n) \div g, (s * d) \div g>>

Int2R(n) == <<n, 1>>
RZero == <<0, 1>>

RAdd(a, b) == Rat(a[1] * b[2] + b[1] * a[2], a[2] * b[2])
RNeg(a) == <<-a[1], a[2]>>
RSub(a, b) == RAdd(a, RNeg(b))
RMul(a, b) == Rat(a[1] * b[1], a[2] * b[2])
RLt(a, b) == a[1] * b[2] < b[1] * a[2]
RLe(a, b) == a[1] * b[2] <= b[1] * a[2]
RAbs(a) == <<IAbs(a[1]), a[2]>>
RMin(a, b) == IF RLt(b, a) THEN b ELSE a
\* int(x): truncation towards zero.
RTrunc(a) == IF a[1] >= 0 THEN a[1] \div a[2] ELSE -((-a[1]) \div a[2])

(***************************************************************************)
(* Optional values.                                                        *)
(***************************************************************************)
None == <<>>
Some(x) == <<x>>

(***************************************************************************)
(* AST (src/parser/ast.py).                                                *)
(***************************************************************************)
Effect(metric, lo, hi) == [metric |-> metric, min_effect |-> lo, max_effect |-> hi]

Parameter(name, lo, hi) == [name |-> name, min_value |-> lo, max_value |-> hi]

Action(name, parameters, effects, cost) ==
    [name |-> name, parameters |-> parameters, effects |-> effects, cost |-> cost]

Constraint(name, metric, operator, value, severity) ==
    [name |-> name, metric |-> metric, operator |-> operator,
     value |-> value, severity |-> severity]

Objective(name, metric, type, target_value, priority) ==
    [name |-> name, metric |-> metric, type |-> type,
     target_value |-> target_value, priority |-> priority]

\* Tick(interval_ms, action_threshold, mode); Tick() is DefaultTick.
Tick(interval_ms, action_threshold, mode) ==
    [interval_ms |-> interval_ms, action_threshold |-> action_threshold, mode |-> mode]

DefaultTick == Tick(100, Rat(1, 2), "continuous")

\* A State(name, source) as the parser builds it.
State(name, path) == [name |-> name, source |-> path]

\* System(name=..., states=..., ...): version and tick default to None.
\* states holds the names of the State objects and paths their sources, in
\* the same order; a ValueWithUnit is its value.
System(name, states, constraints, objectives, actions) ==
    [name |-> name, version |-> None, states |-> states, paths |-> << >>,
     constraints |-> constraints, objectives |-> objectives, actions |-> actions,
     tick |-> None]

(***************************************************************************)
(* System.validate: the error list is non-empty iff one of the checks of   *)
(* ast.py fails.  Parameter ranges and name uniqueness are not checked.    *)
(***************************************************************************)
Validate(sys) ==
    LET state_names == {sys.states[i] : i \in DOMAIN sys.states}
    IN  /\ sys.name # ""
        /\ Len(sys.states) > 0
        /\ Len(sys.constraints) > 0 \/ Len(sys.objectives) > 0
        /\ \A i \in DOMAIN sys.constraints : sys.constraints[i].metric \in state_names
        /\ \A i \in DOMAIN sys.objectives :
              /\ sys.objectives[i].metric \in state_names
              /\ sys.objectives[i].priority \in 1..10

\* System.validate: the error list, one entry per failed check, in the
\* order of ast.py.
ValidateErrors(sys) ==
    LET state_names == {sys.states[i] : i \in DOMAIN sys.states}
        unknown(items) == SelectSeq(items, LAMBDA x : x.metric \notin state_names)
    IN  (IF sys.name = "" THEN << [error |-> "name", of |-> ""] >> ELSE << >>)
        \o (IF Len(sys.states) = 0 THEN << [error |-> "states", of |-> ""] >> ELSE << >>)
        \o (IF Len(sys.constraints) = 0 /\ Len(sys.objectives) = 0
            THEN << [error |-> "goals", of |-> ""] >> ELSE << >>)
        \o [i \in DOMAIN unknown(sys.constraints) |->
               [error |-> "constraint_metric", of |-> unknown(sys.constraints)[i].name]]
        \o [i \in DOMAIN unknown(sys.objectives) |->
               [error |-> "objective_metric", of |-> unknown(sys.objectives)[i].name]]
        \o LET bad == SelectSeq(sys.objectives, LAMBDA o : o.priority \notin 1..10)
           IN  [i \in DOMAIN bad |-> [error |-> "priority", of |-> bad[i].name]]


(***************************************************************************)
(* State manager (src/runtime/state.py).                                   *)
(***************************************************************************)
\* StateManager.get: the current value, 0.0 for a name never updated.
StateGet(cur, name) == IF name \in DOMAIN cur THEN cur[name] ELSE RZero

\* StateManager.update_all: dict.update.
UpdateAll(cur, values) ==
    [n \in DOMAIN cur \cup DOMAIN values |->
        IF n \in DOMAIN values THEN values[n] ELSE cur[n]]

(***************************************************************************)
(* Scorer (src/runtime/scorer.py).                                         *)
(***************************************************************************)
Epsilon == Rat(1, 1000)

\* Scorer._evaluate_constraint: the margin, negative when violated.
EvaluateConstraint(current, operator, threshold) ==
    CASE operator = "<=" -> RSub(threshold, current)
      [] operator = ">=" -> RSub(current, threshold)
      [] operator = "<"  -> RSub(RSub(threshold, current), Epsilon)
      [] operator = ">"  -> RSub(RSub(current, threshold), Epsilon)
      [] operator = "==" -> RNeg(RAbs(RSub(current, threshold)))
      [] operator = "!=" -> RSub(RAbs(RSub(current, threshold)), Epsilon)
      [] OTHER -> RZero

\* Scorer.check_constraints: one ConstraintStatus per declared constraint.
CheckConstraints(sys, cur) ==
    [i \in DOMAIN sys.constraints |->
        LET c == sys.constraints[i]
            current == StateGet(cur, c.metric)
            margin == EvaluateConstraint(current, c.operator, c.value)
        IN  [constraint |-> c,
             current_value |-> current,
             threshold |-> c.value,
             violation |-> IF RLt(margin, RZero)
                           THEN (IF c.severity = "critical" THEN "critical" ELSE "warning")
                           ELSE "none",
             margin |-> margin]]

IsViolated(status) == status.violation # "none"

\* Scorer.get_all_violations: the violated statuses, in declaration order.
GetAllViolations(sys, cur) == SelectSeq(CheckConstraints(sys, cur), IsViolated)

\* Parameter midpoint: (min + max) // 2 (floor division).
ParamMid(p) == (p.min_value + p.max_value) \div 2

\* The dict built by "combo[param.name] = mid" over the parameters in order.
MidCombo(params) ==
    [n \in {params[i].name : i \in DOMAIN params} |->
        LET last == CHOOSE i \in DOMAIN params :
                        /\ params[i].name = n
                        /\ \A j \in DOMAIN params : params[j].name = n => j <= i
        IN  ParamMid(params[last])]

\* Scorer._generate_parameter_combinations: min, mid, max of a single
\* parameter; the midpoints of several.
GenerateParameterCombinations(action) ==
    IF Len(action.parameters) = 1
    THEN LET param == action.parameters[1]
         IN  << (param.name :> param.min_value),
                (param.name :> ParamMid(param)),
                (param.name :> param.max_value) >>
    ELSE << MidCombo(action.parameters) >>

\* A candidate as ActionCandidate(action=..., parameters=...) constructs it.
ActionCandidate(action, parameters) ==
    [action |-> action, parameters |-> parameters,
     score |-> RZero, constraint_resolution_score |-> RZero,
     objective_score |-> RZero, cost_penalty |-> RZero,
     predicted_effects |-> <<>>]

CandidatesOf(action) ==
    IF Len(action.parameters) > 0
    THEN LET combos == GenerateParameterCombinations(action)
         IN  [i \in DOMAIN combos |-> ActionCandidate(action, combos[i])]
    ELSE << ActionCandidate(action, <<>>) >>

RECURSIVE Flatten(_)
Flatten(seqs) == IF seqs = <<>> THEN <<>> ELSE Head(seqs) \o Flatten(Tail(seqs))

\* Scorer.generate_candidates: the candidates of every action, in declaration order.
GenerateCandidates(sys) == Flatten([i \in DOMAIN sys.actions |-> CandidatesOf(sys.actions[i])])

\* The parameter predict_effects interpolates along: the first key of the
\* candidate's parameter dict, which is the first declared parameter.
FirstParam(action) == action.parameters[1]

\* predict_effects raises ZeroDivisionError: a ranged effect of a candidate
\* with parameters whose first parameter has max_value = min_value.
PredictRaises(action, parameters) ==
    /\ \E i \in DOMAIN action.effects : action.effects[i].max_effect # None
    /\ DOMAIN parameters # {}
    /\ FirstParam(action).max_value = FirstParam(action).min_value

\* The value predict_effects computes for one effect.
EffectValue(action, parameters, effect) ==
    IF effect.max_effect # None
    THEN LET min_eff == effect.min_effect
             max_eff == effect.max_effect[1]
         IN  IF DOMAIN parameters # {}
             THEN LET param_def == FirstParam(action)
                      param_value == parameters[param_def.name]
                      ratio == Rat(param_value - param_def.min_value,
                                   param_def.max_value - param_def.min_value)
                  IN  RAdd(min_eff, RMul(RSub(max_eff, min_eff), ratio))
             ELSE RMul(RAdd(min_eff, max_eff), Rat(1, 2))
    ELSE effect.min_effect

\* Scorer.predict_effects: metric -> predicted delta (a later effect on the
\* same metric overwrites an earlier one).
PredictEffects(action, parameters) ==
    [m \in {action.effects[i].metric : i \in DOMAIN action.effects} |->
        LET last == CHOOSE i \in DOMAIN action.effects :
                        /\ action.effects[i].metric = m
                        /\ \A j \in DOMAIN action.effects :
                               action.effects[j].metric = m => j <= i
        IN  EffectValue(action, parameters, action.effects[last])]

RECURSIVE RSum(_)
RSum(seq) == IF seq = <<>> THEN RZero ELSE RAdd(Head(seq), RSum(Tail(seq)))

\* The contribution of one violation to the constraint-resolution score.
ResolutionOf(effects, violation, cur) ==
    LET metric == violation.constraint.metric
        operator == violation.constraint.operator
    IN  IF metric \in DOMAIN effects
        THEN LET effect == effects[metric]
                 current == StateGet(cur, metric)
                 threshold == violation.threshold
             IN  IF operator \in {"<=", "<"}
                 THEN (IF RLt(effect, RZero)
                       THEN RMul(RMin(RAbs(effect), RSub(current, threshold)), Int2R(2))
                       ELSE RZero)
                 ELSE IF operator \in {">=", ">"}
                 THEN (IF RLt(RZero, effect)
                       THEN RMul(RMin(effect, RSub(threshold, current)), Int2R(2))
                       ELSE RZero)
                 ELSE RZero
        ELSE RZero

\* Scorer._score_constraint_resolution.
ScoreConstraintResolution(effects, violations, cur) ==
    RSum([i \in DOMAIN violations |-> ResolutionOf(effects, violations[i], cur)])

\* The contribution of one objective to the objective score.
ObjectiveOf(effects, objective, cur) ==
    LET metric == objective.metric
        priority_weight == Rat(objective.priority, 10)
        half == Rat(1, 2)
    IN  IF metric \in DOMAIN effects
        THEN LET effect == effects[metric]
                 current == StateGet(cur, metric)
             IN  CASE objective.type = "min" ->
                        IF RLt(effect, RZero)
                        THEN RMul(RAbs(effect), priority_weight)
                        ELSE RNeg(RMul(RMul(effect, priority_weight), half))
                   [] objective.type = "max" ->
                        IF RLt(RZero, effect)
                        THEN RMul(effect, priority_weight)
                        ELSE RNeg(RMul(RMul(RAbs(effect), priority_weight), half))
                   [] objective.type = "target" ->
                        LET target == objective.target_value[1]
                            new_value == RAdd(current, effect)
                            old_distance == RAbs(RSub(current, target))
                            new_distance == RAbs(RSub(new_value, target))
                        IN  IF RLt(new_distance, old_distance)
                            THEN RMul(RSub(old_distance, new_distance), priority_weight)
                            ELSE RNeg(RMul(RMul(RSub(new_distance, old_distance),
                                                priority_weight), half))
                   [] OTHER -> RZero
        ELSE RZero

RECURSIVE ISum(_)
ISum(seq) == IF seq = <<>> THEN 0 ELSE Head(seq) + ISum(Tail(seq))

\* Scorer._score_objectives.
ScoreObjectives(sys, effects, cur) ==
    LET total_priority == ISum([i \in DOMAIN sys.objectives |-> sys.objectives[i].priority])
    IN  IF total_priority = 0
        THEN RZero
        ELSE RSum([i \in DOMAIN sys.objectives |-> ObjectiveOf(effects, sys.objectives[i], cur)])

\* Scorer.COST_PENALTIES.get(cost, 0.0).
CostPenalty(cost) ==
    CASE cost = "low" -> RZero
      [] cost = "medium" -> Rat(2, 10)
      [] cost = "high" -> Rat(5, 10)
      [] OTHER -> RZero

\* Mutant of TotalScore: the cost penalty is added.
TotalScorePenaltyAdded(constraint_score, objective_score, cost_penalty, violations) ==
    IF violations # <<>>
    THEN RAdd(RAdd(RMul(constraint_score, Int2R(10)), objective_score), cost_penalty)
    ELSE RAdd(objective_score, cost_penalty)

\* The total of score_candidate: constraint resolution weighs ten times
\* when violations exist and is left out otherwise.
TotalScore(constraint_score, objective_score, cost_penalty, violations) ==
    IF violations # <<>>
    THEN RSub(RAdd(RMul(constraint_score, Int2R(10)), objective_score), cost_penalty)
    ELSE RSub(objective_score, cost_penalty)

\* Scorer.score_candidate: the candidate with its scores filled in.
ScoreCandidate(sys, cur, candidate, violations) ==
    LET effects == PredictEffects(candidate.action, candidate.parameters)
        constraint_score == ScoreConstraintResolution(effects, violations, cur)
        objective_score == ScoreObjectives(sys, effects, cur)
        cost_penalty == CostPenalty(candidate.action.cost)
    IN  [candidate EXCEPT
            !.predicted_effects = effects,
            !.constraint_resolution_score = constraint_score,
            !.objective_score = objective_score,
            !.cost_penalty = cost_penalty,
            !.score = TotalScore(constraint_score, objective_score, cost_penalty, violations)]

\* Scoring the candidates of the system raises (ZeroDivisionError in
\* predict_effects) as soon as one candidate does.
ScoringRaises(sys) ==
    LET candidates == GenerateCandidates(sys)
    IN  \E i \in DOMAIN candidates :
            PredictRaises(candidates[i].action, candidates[i].parameters)

ScoredCandidates(sys, cur) ==
    LET violations == GetAllViolations(sys, cur)
        candidates == GenerateCandidates(sys)
    IN  [i \in DOMAIN candidates |-> ScoreCandidate(sys, cur, candidates[i], violations)]

HelpsResolve(c) == RLt(RZero, c.constraint_resolution_score)

\* Mutant of ConsideredCandidates: the candidates are not filtered.
AllCandidates(candidates, violations) == candidates

\* "resolving = [c for c in candidates if c.constraint_resolution_score > 0]":
\* the set selection is made over.
ConsideredCandidates(candidates, violations) ==
    IF violations # <<>>
    THEN LET resolving == SelectSeq(candidates, HelpsResolve)
         IN  IF resolving # <<>> THEN resolving ELSE candidates
    ELSE candidates

\* Mutant of InsertDesc: a candidate is put before those of equal score.
RECURSIVE InsertDescBeforeEqual(_, _)
InsertDescBeforeEqual(sorted, c) ==
    IF sorted = <<>> THEN <<c>>
    ELSE IF RLe(Head(sorted).score, c.score)
         THEN <<c>> \o sorted
         ELSE <<Head(sorted)>> \o InsertDescBeforeEqual(Tail(sorted), c)

\* list.sort(key=score, reverse=True): stable, so candidates of equal score
\* keep their enumeration order.
RECURSIVE InsertDesc(_, _)
InsertDesc(sorted, c) ==
    IF sorted = <<>> THEN <<c>>
    ELSE IF RLt(Head(sorted).score, c.score)
         THEN <<c>> \o sorted
         ELSE <<Head(sorted)>> \o InsertDesc(Tail(sorted), c)

RECURSIVE SortByScore(_)
SortByScore(candidates) ==
    IF candidates = <<>> THEN <<>>
    ELSE InsertDesc(SortByScore(SubSeq(candidates, 1, Len(candidates) - 1)),
                    candidates[Len(candidates)])

\* Mutant of ExceedsThreshold: ">=" for ">".
ReachesThreshold(score, threshold) == RLe(threshold, score)

\* "candidates[0].score > threshold".
ExceedsThreshold(score, threshold) == RLt(threshold, score)

\* Scorer.select_best_action (for a system whose scoring does not raise).
SelectBestAction(sys, cur, threshold) ==
    LET violations == GetAllViolations(sys, cur)
        candidates == SortByScore(ConsideredCandidates(ScoredCandidates(sys, cur), violations))
    IN  IF candidates # <<>> /\ ExceedsThreshold(candidates[1].score, threshold)
        THEN Some(candidates[1])
        ELSE None


(***************************************************************************)
(* The systems the engine is run on.                                       *)
(***************************************************************************)
\* The thermostat of src/parser/demo.py; the first parameter of
\* increase_fan ranges over lo..hi.
ThermostatWith(lo, hi) ==
    System("Thermostat",
        << "temperature", "fan_speed" >>,
        << Constraint("max_temp", "temperature", "<=", Int2R(85), "critical"),
           Constraint("min_temp", "temperature", ">=", Int2R(30), "warning") >>,
        << Objective("comfort", "temperature", "target", Some(Int2R(65)), 8),
           Objective("silence", "fan_speed", "min", None, 4) >>,
        << Action("increase_fan", << Parameter("level", lo, hi) >>,
                  << Effect("temperature", Int2R(-5), Some(Int2R(-15))),
                     Effect("fan_speed", Int2R(20), Some(Int2R(100))) >>, "low"),
           Action("decrease_fan", << >>,
                  << Effect("temperature", Int2R(3), Some(Int2R(10))),
                     Effect("fan_speed", Int2R(-20), Some(Int2R(-100))) >>, "low") >>)

Thermostat == ThermostatWith(1, 5)


\* A system that validates although its parameter range is degenerate (3..3).
Degenerate == ThermostatWith(3, 3)

\* A constraint on x that "cool" (cost high, small effect) resolves, and an
\* objective on y that "boost" serves far better.
Priorities ==
    System("Priorities",
        << "x", "y" >>,
        << Constraint("cap", "x", "<=", Int2R(85), "critical"),
           Constraint("floor", "x", ">=", Int2R(50), "warning") >>,
        << Objective("gain", "y", "max", None, 10) >>,
        << Action("boost", << >>, << Effect("y", Int2R(100), None) >>, "low"),
           Action("cool", << >>, << Effect("x", Int2R(-1), None) >>, "high") >>)

\* One objective of weight 5/10 and one action of effect -1: its score is
\* exactly 0.5, the default action threshold.
Boundary ==
    System("Boundary",
        << "load" >>,
        << >>,
        << Objective("calm", "load", "min", None, 5) >>,
        << Action("shed", << Parameter("amount", 1, 3), Parameter("delay", 0, 4) >>,
                  << Effect("load", Int2R(-1), None) >>, "low") >>)

\* One constraint per comparison operator, all on x with threshold 50.
Operators ==
    System("Operators",
        << "x" >>,
        << Constraint("le", "x", "<=", Int2R(50), "critical"),
           Constraint("lt", "x", "<", Int2R(50), "critical"),
           Constraint("ge", "x", ">=", Int2R(50), "warning"),
           Constraint("gt", "x", ">", Int2R(50), "warning"),
           Constraint("eq", "x", "==", Int2R(50), "warning"),
           Constraint("ne", "x", "!=", Int2R(50), "warning") >>,
        << >>,
        << >>)

\* Strict constraints on two metrics and, for each, an action that moves it
\* toward the allowed side and one that moves it away.
Strict ==
    System("Strict",
        << "load", "level" >>,
        << Constraint("below", "load", "<", Int2R(50), "critical"),
           Constraint("above", "level", ">", Int2R(10), "warning") >>,
        << Objective("calm", "load", "min", None, 5) >>,
        << Action("shed", << >>, << Effect("load", Int2R(-5), None) >>, "low"),
           Action("add", << >>, << Effect("load", Int2R(5), None) >>, "low"),
           Action("fill", << >>, << Effect("level", Int2R(5), None) >>, "low"),
           Action("drain", << >>, << Effect("level", Int2R(-5), None) >>, "low") >>)

\* Actions that differ in name and cost only, declared in the order of costs.
Tariff(costs) ==
    System("Tariff",
        << "load" >>,
        << Constraint("cap", "load", "<=", Int2R(10), "critical") >>,
        << Objective("calm", "load", "min", None, 5) >>,
        [i \in DOMAIN costs |->
            Action(CASE costs[i] = "low" -> "cheap"
                     [] costs[i] = "medium" -> "fair"
                     [] costs[i] = "high" -> "dear",
                   << >>, << Effect("load", Int2R(-1), None) >>, costs[i])])

\* Actions whose candidates all have the same score: the effect of "first"
\* does not depend on its parameter, "second" has the same effect and cost.
Ties ==
    System("Ties",
        << "load" >>,
        << Constraint("cap", "load", "<=", Int2R(10), "critical") >>,
        << Objective("calm", "load", "min", None, 5) >>,
        << Action("first", << Parameter("level", 1, 5) >>,
                  << Effect("load", Int2R(-1), None) >>, "low"),
           Action("second", << >>, << Effect("load", Int2R(-1), None) >>, "low") >>)

\* A system that validates although the range of "level" is written 5..1.
Inverted == ThermostatWith(5, 1)

\* An action with several parameters, one with one and one with none.
Several ==
    System("Several",
        << "load" >>,
        << Constraint("cap", "load", "<=", Int2R(10), "critical") >>,
        << Objective("calm", "load", "min", None, 5) >>,
        << Action("shed", << Parameter("level", 1, 5), Parameter("speed", -3, 0) >>,
                  << Effect("load", Int2R(-1), Some(Int2R(-3))) >>, "low"),
           Action("trim", << Parameter("level", -3, 0) >>,
                  << Effect("load", Int2R(-1), Some(Int2R(-2))) >>, "medium"),
           Action("idle", << >>, << Effect("load", Int2R(1), None) >>, "low") >>)

(***************************************************************************)
(* Bounds of the model.                                                    *)
(***************************************************************************)
MaxWorkers == 2
MaxTicks == 3
MaxItems == 2
MaxIndent == 7
MaxSnapshots == 102
MaxDuration == 2
MaxElapsed == 3
LongTicks == 1002

(***************************************************************************)
(* Program constants.                                                      *)
(***************************************************************************)
HistoryMax == 1000
HistoryKeep == 500
SnapshotMax == 100

(***************************************************************************)
(* Engine wirings: a system, a configuration and the registered callables. *)
(* A reader is the set of outcomes a call of it can have (None: it raises, *)
(* Some(v): it returns v); a handler or an observer is the set of outcomes *)
(* of a call (TRUE: it returns, FALSE: it raises).                         *)
(***************************************************************************)
EngineConfig(action_threshold, dry_run) ==
    [action_threshold |-> action_threshold, dry_run |-> dry_run]

Wiring(sys, cfg, readers, handlers, callbacks) ==
    [system |-> sys, config |-> cfg, state_readers |-> readers,
     action_handlers |-> handlers, tick_callbacks |-> callbacks]

\* Background mode: the thermostat demo wiring (src/demo.py), every callable
\* well behaved; the two systems differ in the range of "level".
BackgroundWirings ==
    { Wiring(sys, EngineConfig(Rat(3, 10), FALSE),
             ("temperature" :> {Some(Int2R(90))}) @@ ("fan_speed" :> {Some(Int2R(30))}),
             ("increase_fan" :> {TRUE}) @@ ("decrease_fan" :> {TRUE}),
             << {TRUE} >>) : sys \in {Thermostat, Degenerate} }

\* A long one-shot run: every callable has one outcome, so that every tick
\* has the same result but for its number.
LongWirings ==
    { Wiring(Boundary, EngineConfig(thr, FALSE),
             ("load" :> {Some(Int2R(7))}),
             ("shed" :> {TRUE}),
             << {TRUE} >>) : thr \in {Rat(1, 2), Rat(3, 10)} }

\* One-shot mode: readers that return one of several values or raise,
\* handlers that return or raise, a handler left unregistered ("boost"),
\* callables registered under undeclared names, an observer that may raise.
TickWirings ==
    { Wiring(Thermostat, EngineConfig(Rat(3, 10), dry),
             ("temperature" :> {None, Some(Int2R(65)), Some(Int2R(90))})
                @@ ("fan_speed" :> {None, Some(Int2R(30)), Some(Int2R(50))})
                @@ ("target" :> {Some(Int2R(65))}),
             ("increase_fan" :> {TRUE, FALSE}) @@ ("decrease_fan" :> {TRUE})
                @@ ("emergency_cooling" :> {TRUE}),
             << {TRUE, FALSE}, {TRUE} >>) : dry \in BOOLEAN }
    \cup
    { Wiring(Priorities, EngineConfig(Rat(3, 10), dry),
             ("x" :> {Some(Int2R(86)), Some(Int2R(80)), Some(Int2R(40))})
                @@ ("y" :> {Some(Int2R(0))}),
             ("cool" :> {TRUE, FALSE}),
             << {TRUE} >>) : dry \in BOOLEAN }
    \cup
    { Wiring(Boundary, EngineConfig(thr, FALSE),
             ("load" :> {None, Some(Int2R(7))}),
             ("shed" :> {TRUE}),
             << >>) : thr \in {Rat(1, 2), Rat(3, 10)} }
    \cup
    LongWirings
    \cup
    \* load below and above the cap of Tariff.
    { Wiring(Tariff(costs), EngineConfig(Rat(3, 10), FALSE),
             ("load" :> {Some(Int2R(7)), Some(Int2R(12))}),
             ("cheap" :> {TRUE}) @@ ("fair" :> {TRUE}) @@ ("dear" :> {TRUE}),
             << >>) :
        costs \in { << "low", "high" >>, << "high", "low" >>,
                    << "high", "medium", "low" >>, << "medium", "low", "high" >> } }
    \cup
    \* load below and above the cap of Ties.
    { Wiring(Ties, EngineConfig(Rat(3, 10), FALSE),
             ("load" :> {Some(Int2R(7)), Some(Int2R(12))}),
             ("first" :> {TRUE}) @@ ("second" :> {TRUE}),
             << >>) }
    \cup
    { Wiring(Several, EngineConfig(Rat(3, 10), FALSE),
             ("load" :> {Some(Int2R(7)), Some(Int2R(12))}),
             ("shed" :> {TRUE}) @@ ("trim" :> {TRUE}) @@ ("idle" :> {TRUE}),
             << >>) }
    \cup
    { Wiring(Inverted, EngineConfig(Rat(3, 10), FALSE),
             ("temperature" :> {Some(Int2R(90))}) @@ ("fan_speed" :> {Some(Int2R(30))}),
             ("increase_fan" :> {TRUE}) @@ ("decrease_fan" :> {TRUE}),
             << >>) }
    \cup
    \* load at, 0.0005 below and above the threshold of Strict; level at and
    \* above its threshold.
    { Wiring(Strict, EngineConfig(Rat(3, 10), FALSE),
             ("load" :> {Some(Rat(99999, 2000)), Some(Int2R(50)), Some(Int2R(53))})
                @@ ("level" :> {Some(Int2R(10)), Some(Int2R(12))}),
             ("shed" :> {TRUE}) @@ ("add" :> {TRUE}) @@ ("fill" :> {TRUE})
                @@ ("drain" :> {TRUE}),
             << >>) }
    \cup
    \* x at, one off and 0.0005 off the threshold of Operators.
    { Wiring(Operators, EngineConfig(Rat(1, 2), FALSE),
             ("x" :> {Some(Int2R(49)), Some(Rat(99999, 2000)), Some(Int2R(50)),
                      Some(Rat(100001, 2000)), Some(Int2R(51))}),
             << >>,
             << >>) }
    \cup
    { Wiring(Degenerate, EngineConfig(Rat(3, 10), FALSE),
             ("temperature" :> {Some(Int2R(90))}),
             ("increase_fan" :> {TRUE}),
             << {TRUE} >>) }

VARIABLES
    system,          \* Engine.system
    config,          \* Engine.config
    state_readers,   \* Engine._state_readers
    action_handlers, \* Engine._action_handlers
    tick_callbacks,  \* Engine._tick_callbacks
    current,         \* StateManager.current
    snapshots,       \* StateManager.history
    clock,           \* the number of snapshots taken so far (datetime.now())
    running,         \* Engine._running
    thread,          \* Engine._thread
    tick_count,      \* Engine._tick_count
    history,         \* Engine._history
    pc,              \* the position of every thread
    frame,           \* the locals of the tick a thread executes (and its trace)
    stopped,         \* stop() was called and start() was not called since
    duration,        \* run(): duration_seconds of the call in progress
    elapsed,         \* run(): time.time() - start_time, in tick intervals
    source,          \* Lexer.source, line by line
    line,            \* Lexer.line
    indent_stack,    \* Lexer.indent_stack
    tokens,          \* Lexer.tokens
    phase,           \* the position of the front end (parse_string, validate)
    outcome,         \* what parse_string returned or raised
    errors,          \* what System.validate returned
    first            \* the AST whose text is being parsed again, if any

wiring == <<system, config, state_readers, action_handlers, tick_callbacks>>
manager == <<current, snapshots, clock>>
driven == <<duration, elapsed>>
frontend == <<source, line, indent_stack, tokens, phase, outcome, errors, first>>
vars == <<system, config, state_readers, action_handlers, tick_callbacks,
          current, snapshots, clock, running, thread, tick_count, history, pc, frame, stopped,
          duration, elapsed,
          source, line, indent_stack, tokens, phase, outcome, errors, first>>

\* Thread 0 is the thread that controls the engine; 1..MaxWorkers are the
\* threads start() creates.
Main == 0
Workers == 1..MaxWorkers
Threads == 0..MaxWorkers

TickPositions == {"read", "snapshot", "decide", "execute", "append", "compact", "notify"}

\* Thread.is_alive(): started and run() has not ended.
IsAlive(w) == pc[w] \notin {"unstarted", "done", "crashed"}

EmptyFrame ==
    [tick |-> 0, after_stop |-> FALSE, before |-> <<>>, values |-> <<>>,
     read_failed |-> {}, constraints |-> <<>>, violations |-> <<>>,
     candidates_evaluated |-> 0, selected |-> None, executed |-> FALSE,
     calls |-> <<>>, result |-> None, delivered |-> <<>>, raised |-> FALSE]

\* The front end has nothing to do: the engine was given its system.
FrontEndIdle ==
    /\ source = <<>>
    /\ line = 1
    /\ indent_stack = <<0>>
    /\ tokens = <<>>
    /\ phase = "idle"
    /\ outcome = None
    /\ errors = <<>>
    /\ first = None

\* Engine.__init__ followed by the registration calls of a wiring.
InitWith(wirings) ==
    /\ \E w \in wirings :
          /\ system = w.system
          /\ config = w.config
          /\ state_readers = w.state_readers
          /\ action_handlers = w.action_handlers
          /\ tick_callbacks = w.tick_callbacks
    /\ current = <<>>
    /\ snapshots = <<>>
    /\ clock = 0
    /\ running = FALSE
    /\ thread = None
    /\ tick_count = 0
    /\ history = <<>>
    /\ pc = [t \in Threads |-> IF t = Main THEN "idle" ELSE "unstarted"]
    /\ frame = [t \in Threads |-> EmptyFrame]
    /\ stopped = FALSE
    /\ duration = None
    /\ elapsed = 0
    /\ FrontEndIdle

(***************************************************************************)
(* Engine.tick, one action per step of the thread t that executes it.      *)
(***************************************************************************)
\* tick(), lines 148-149: the tick counter is incremented.
BeginTick(t) ==
    /\ tick_count' = tick_count + 1
    /\ frame' = [frame EXCEPT ![t] =
                    [EmptyFrame EXCEPT !.tick = tick_count + 1,
                                       !.after_stop = stopped,
                                       !.before = current]]

\* Mutant of ReadableOf: every registered reader, declared state or not.
ReadableOfAny(sys, readers) == DOMAIN readers

\* The declared states that have a registered reader.
ReadableOf(sys, readers) == {sys.states[i] : i \in DOMAIN sys.states} \cap DOMAIN readers

ReadableStates == ReadableOf(system, state_readers)

\* Mutant of ReadValues: a reader that raised contributes 0.0.
ReadValuesDefault(outs) ==
    [n \in DOMAIN outs |-> IF outs[n] = None THEN RZero ELSE outs[n][1]]

\* The dict "values" of read_states(): an entry for every reader that
\* returned, none for a reader that raised.
ReadValues(outs) == [n \in {m \in DOMAIN outs : outs[m] # None} |-> outs[n][1]]

\* read_states(): every registered reader of a declared state is called; the
\* values of those that returned are written with update_all.
ReadStates(t) ==
    /\ pc[t] = "read"
    /\ \E outs \in [ReadableStates -> UNION {state_readers[n] : n \in ReadableStates}] :
          /\ \A n \in ReadableStates : outs[n] \in state_readers[n]
          /\ current' = UpdateAll(current, ReadValues(outs))
          /\ frame' = [frame EXCEPT
                ![t].values = [n \in {m \in ReadableStates : outs[m] # None} |-> outs[n][1]],
                ![t].read_failed = {n \in ReadableStates : outs[n] = None}]
    /\ pc' = [pc EXCEPT ![t] = "snapshot"]
    /\ UNCHANGED <<frontend, driven, wiring, snapshots, clock, running, thread, tick_count, history, stopped>>

\* Mutant of DequeAppend: a full deque discards the new element.
DequeAppendKeepOld(deque, x) ==
    IF Len(deque) >= SnapshotMax THEN deque ELSE Append(deque, x)

\* deque(maxlen=100).append.
DequeAppend(deque, x) ==
    IF Len(deque) >= SnapshotMax THEN Append(Tail(deque), x) ELSE Append(deque, x)

\* StateSnapshot(timestamp=..., values=dict(current)): the timestamp is the
\* number of snapshots taken before this one.
StateSnapshot(timestamp, values) == [timestamp |-> timestamp, values |-> values]

\* StateManager.snapshot(): a copy of current is appended to the history.
Snapshot(t) ==
    /\ pc[t] = "snapshot"
    /\ snapshots' = DequeAppend(snapshots, StateSnapshot(clock, current))
    /\ clock' = clock + 1
    /\ pc' = [pc EXCEPT ![t] = "decide"]
    /\ UNCHANGED <<frontend, driven, wiring, current, running, thread, tick_count, history, frame, stopped>>

\* Where a thread goes when tick() raises: a worker's run() ends with the
\* exception, the controlling thread gets it from its call.
AfterRaise(t) == IF t = Main THEN "idle" ELSE "crashed"

\* Where a thread goes when tick() returns: a worker to the sleep of run()
\* (its duration is None), the controlling thread back to its caller.
AfterTick(t) == IF t = Main THEN "idle" ELSE "sleep"

\* tick(), lines 156-165: constraints, candidates, scores, selection.
Decide(t) ==
    /\ pc[t] = "decide"
    /\ IF ScoringRaises(system)
       THEN /\ frame' = [frame EXCEPT ![t].raised = TRUE]
            /\ pc' = [pc EXCEPT ![t] = AfterRaise(t)]
       ELSE /\ frame' = [frame EXCEPT
                  ![t].constraints = CheckConstraints(system, current),
                  ![t].violations = GetAllViolations(system, current),
                  ![t].candidates_evaluated = Len(GenerateCandidates(system)),
                  ![t].selected = SelectBestAction(system, current, config.action_threshold)]
            /\ pc' = [pc EXCEPT ![t] = "execute"]
    /\ UNCHANGED <<frontend, driven, wiring, manager, running, thread, tick_count, history, stopped>>

\* Mutant of HandlerInvoked: the dry-run test is missing.
HandlerInvokedAlways(cfg, handlers, candidate) ==
    candidate.action.name \in DOMAIN handlers

\* execute_action calls the handler: not a dry run, and a handler is
\* registered under the action's name.
HandlerInvoked(cfg, handlers, candidate) ==
    /\ ~cfg.dry_run
    /\ candidate.action.name \in DOMAIN handlers

\* Mutant of HandlerCall: the handler is called with an empty dict.
HandlerCallBare(candidate) ==
    [name |-> candidate.action.name, parameters |-> <<>>]

\* "self._action_handlers[name](candidate.parameters)": the handler called
\* and the argument it gets.
HandlerCall(candidate) ==
    [name |-> candidate.action.name, parameters |-> candidate.parameters]

\* Mutant of ExecutedAfter: True also when the handler raised.
ExecutedAlways(returned) == TRUE

\* What execute_action returns after calling the handler: True if it
\* returned, False if it raised.
ExecutedAfter(returned) == returned

\* tick(), lines 168-170, and execute_action().
Execute(t) ==
    /\ pc[t] = "execute"
    /\ IF frame[t].selected # None /\ HandlerInvoked(config, action_handlers, frame[t].selected[1])
       THEN LET call == HandlerCall(frame[t].selected[1])
            IN  \E returned \in action_handlers[call.name] :
                   frame' = [frame EXCEPT
                      ![t].calls = Append(@, [name |-> call.name,
                                              parameters |-> call.parameters,
                                              returned |-> returned]),
                      ![t].executed = ExecutedAfter(returned)]
       ELSE frame' = [frame EXCEPT ![t].executed = FALSE]
    /\ pc' = [pc EXCEPT ![t] = "append"]
    /\ UNCHANGED <<frontend, driven, wiring, manager, running, thread, tick_count, history, stopped>>

\* The TickResult of the tick in frame f (the tick number stands for its
\* timestamp).
TickResult(f) ==
    [tick |-> f.tick, constraints |-> f.constraints, violations |-> f.violations,
     candidates_evaluated |-> f.candidates_evaluated,
     selected_action |-> f.selected, action_executed |-> f.executed]

\* tick(), line 185: the result is appended to the history.
AppendResult(t) ==
    /\ pc[t] = "append"
    /\ history' = Append(history, TickResult(frame[t]))
    /\ frame' = [frame EXCEPT ![t].result = Some(TickResult(frame[t]))]
    /\ pc' = [pc EXCEPT ![t] = "compact"]
    /\ UNCHANGED <<frontend, driven, wiring, manager, running, thread, tick_count, stopped>>

\* Mutant of Compacted: the test is off by one (> 1001).
CompactedLate(h) ==
    IF Len(h) > HistoryMax + 1 THEN SubSeq(h, Len(h) - HistoryKeep + 1, Len(h)) ELSE h

\* "if len(h) > 1000: h = h[-500:]".
Compacted(h) ==
    IF Len(h) > HistoryMax THEN SubSeq(h, Len(h) - HistoryKeep + 1, Len(h)) ELSE h

\* Engine.get_last_tick: "self._history[-1] if self._history else None".
GetLastTick(h) == IF h # <<>> THEN Some(h[Len(h)]) ELSE None

\* tick(), lines 186-187.
Compact(t) ==
    /\ pc[t] = "compact"
    /\ history' = Compacted(history)
    /\ pc' = [pc EXCEPT ![t] = "notify"]
    /\ UNCHANGED <<frontend, driven, wiring, manager, running, thread, tick_count, frame, stopped>>

\* Mutant of CallbackCalls: the try statement is around the loop, the first
\* exception ends it.
CallbackCallsUntilRaise(outs, result) ==
    LET raising == {i \in DOMAIN outs : ~outs[i]}
        last == IF raising = {} THEN Len(outs)
                ELSE CHOOSE i \in raising : \A j \in raising : i <= j
    IN  [i \in 1..last |-> [observer |-> i, result |-> result, returned |-> outs[i]]]

\* "for callback in self._tick_callbacks: try: callback(result) except ...":
\* the calls made, in the order of the list; outs[i] tells whether the ith
\* callback returns.
CallbackCalls(outs, result) ==
    [i \in DOMAIN outs |-> [observer |-> i, result |-> result, returned |-> outs[i]]]

\* tick(), lines 190-196: every callback is called with the result, an
\* exception of one is caught; then tick() returns.
Notify(t) ==
    /\ pc[t] = "notify"
    /\ \E outs \in [DOMAIN tick_callbacks -> BOOLEAN] :
          /\ \A i \in DOMAIN tick_callbacks : outs[i] \in tick_callbacks[i]
          /\ frame' = [frame EXCEPT ![t].delivered =
                          CallbackCalls(outs, frame[t].result[1])]
    /\ pc' = [pc EXCEPT ![t] = AfterTick(t)]
    /\ UNCHANGED <<frontend, driven, wiring, manager, running, thread, tick_count, history, stopped>>

TickStep(t) ==
    \/ ReadStates(t)
    \/ Snapshot(t)
    \/ Decide(t)
    \/ Execute(t)
    \/ AppendResult(t)
    \/ Compact(t)
    \/ Notify(t)

(***************************************************************************)
(* Background mode: start(), stop() and the worker's run().                *)
(***************************************************************************)
\* start(): returns at once if the recorded thread is alive; otherwise sets
\* the flag and starts a new worker on run().
Start ==
    /\ pc[Main] = "idle"
    /\ IF thread # None /\ IsAlive(thread[1])
       THEN UNCHANGED <<running, thread, pc, stopped>>
       ELSE \E w \in Workers :
               /\ pc[w] = "unstarted"
               /\ \A v \in Workers : pc[v] = "unstarted" => w <= v
               /\ running' = TRUE
               /\ thread' = Some(w)
               /\ pc' = [pc EXCEPT ![w] = "entry"]
               /\ stopped' = FALSE
    /\ UNCHANGED <<frontend, driven, wiring, manager, tick_count, history, frame>>

\* stop(), lines 226-227: the flag is cleared; the join follows if a thread
\* is recorded.
Stop ==
    /\ pc[Main] = "idle"
    /\ running' = FALSE
    /\ stopped' = TRUE
    /\ pc' = [pc EXCEPT ![Main] = IF thread # None THEN "joining" ELSE "idle"]
    /\ UNCHANGED <<frontend, driven, wiring, manager, thread, tick_count, history, frame>>

\* join(timeout=1.0) can time out while the worker is in a tick (a reader, a
\* handler or an observer takes its time) or in its sleep (the interval is
\* configurable).
JoinCanTimeOut(w) == pc[w] \in TickPositions \cup {"sleep"}

\* stop(), lines 228-229: join returns, the worker ended or the timeout
\* elapsed; the thread is forgotten.
JoinReturn ==
    /\ pc[Main] = "joining"
    /\ ~IsAlive(thread[1]) \/ JoinCanTimeOut(thread[1])
    /\ thread' = None
    /\ pc' = [pc EXCEPT ![Main] = "idle"]
    /\ UNCHANGED <<frontend, driven, wiring, manager, running, tick_count, history, frame, stopped>>

\* run(), line 204, the first statement of the worker: the flag is set.
RunEntry(w) ==
    /\ pc[w] = "entry"
    /\ running' = TRUE
    /\ pc' = [pc EXCEPT ![w] = "loop"]
    /\ UNCHANGED <<frontend, driven, wiring, manager, thread, tick_count, history, frame, stopped>>

\* run(), lines 207-208: the loop test; the worker enters tick() or leaves
\* run().
LoopTest(w) ==
    /\ pc[w] = "loop"
    /\ IF running
       THEN /\ tick_count < MaxTicks
            /\ BeginTick(w)
            /\ pc' = [pc EXCEPT ![w] = "read"]
       ELSE /\ pc' = [pc EXCEPT ![w] = "done"]
            /\ UNCHANGED <<tick_count, frame>>
    /\ UNCHANGED <<frontend, driven, wiring, manager, running, thread, history, stopped>>

\* run(), line 213: the sleep between two ticks ends.
Sleep(w) ==
    /\ pc[w] = "sleep"
    /\ pc' = [pc EXCEPT ![w] = "loop"]
    /\ UNCHANGED <<frontend, driven, wiring, manager, running, thread, tick_count, history, frame, stopped>>

Init == InitWith(BackgroundWirings)

Next ==
    \/ Start
    \/ Stop
    \/ JoinReturn
    \/ \E w \in Workers : RunEntry(w)
    \/ \E w \in Workers : LoopTest(w)
    \/ \E w \in Workers : TickStep(w)
    \/ \E w \in Workers : Sleep(w)

Spec == Init /\ [][Next]_vars


(***************************************************************************)
(* One-shot mode: the controlling thread calls tick() itself, one call     *)
(* after the other (as src/demo.py does).                                  *)
(***************************************************************************)
\* tick() is called, at most limit times in all.
CallTick(limit) ==
    /\ pc[Main] = "idle"
    /\ tick_count < limit
    /\ BeginTick(Main)
    /\ pc' = [pc EXCEPT ![Main] = "read"]
    /\ UNCHANGED <<frontend, driven, wiring, manager, running, thread, history, stopped>>

InitTick == InitWith(TickWirings)

NextTick ==
    \/ CallTick(MaxTicks)
    \/ TickStep(Main)

SpecTick == InitTick /\ [][NextTick]_vars

(***************************************************************************)
(* A long run of one-shot ticks, past the compaction of the history.  It   *)
(* starts from the state the engine has after LongStart ticks.             *)
(***************************************************************************)
\* The engine of wiring w (one of LongWirings) when its nth call of tick()
\* has returned, 1 <= n <= HistoryMax: every reader has returned its one
\* value in every tick, every tick has made the same selection, and the
\* history has not been compacted yet.
AgedCurrent(w) ==
    [n \in ReadableOf(w.system, w.state_readers) |->
        (CHOOSE out \in w.state_readers[n] : TRUE)[1]]

\* The result of the nth tick.
AgedResult(w, n, cur, selected, invoked) ==
    [tick |-> n,
     constraints |-> CheckConstraints(w.system, cur),
     violations |-> GetAllViolations(w.system, cur),
     candidates_evaluated |-> Len(GenerateCandidates(w.system)),
     selected_action |-> selected,
     action_executed |-> invoked]

\* What the nth call of tick() has done when it returns result.
AgedFrame(w, cur, result) ==
    [EmptyFrame EXCEPT
       !.tick = result.tick,
       !.before = IF result.tick > 1 THEN cur ELSE <<>>,
       !.values = cur,
       !.constraints = result.constraints,
       !.violations = result.violations,
       !.candidates_evaluated = result.candidates_evaluated,
       !.selected = result.selected_action,
       !.executed = result.action_executed,
       !.calls = IF result.action_executed
                 THEN << [name |-> result.selected_action[1].action.name,
                          parameters |-> result.selected_action[1].parameters,
                          returned |-> TRUE] >>
                 ELSE <<>>,
       !.result = Some(result),
       !.delivered = [i \in DOMAIN w.tick_callbacks |->
                         [observer |-> i, result |-> result, returned |-> TRUE]]]

\* The engine state is the one after n ticks that have each read cur and
\* returned result (but for its number).
IsAgedWith(w, n, cur, result) ==
    /\ system = w.system
    /\ config = w.config
    /\ state_readers = w.state_readers
    /\ action_handlers = w.action_handlers
    /\ tick_callbacks = w.tick_callbacks
    /\ current = cur
    /\ snapshots = [i \in 1..(IF n < SnapshotMax THEN n ELSE SnapshotMax) |->
                       StateSnapshot((IF n < SnapshotMax THEN 0 ELSE n - SnapshotMax) + i - 1, cur)]
    /\ clock = n
    /\ running = FALSE
    /\ thread = None
    /\ tick_count = n
    /\ history = [i \in 1..n |-> [result EXCEPT !.tick = i]]
    /\ pc = [t \in Threads |-> IF t = Main THEN "idle" ELSE "unstarted"]
    /\ frame = [t \in Threads |-> IF t = Main THEN AgedFrame(w, cur, result) ELSE EmptyFrame]
    /\ stopped = FALSE
    /\ duration = None
    /\ elapsed = 0
    /\ FrontEndIdle

IsAgedSelecting(w, n, cur, selected) ==
    IsAgedWith(w, n, cur,
               AgedResult(w, n, cur, selected,
                          selected # None /\ HandlerInvoked(w.config, w.action_handlers, selected[1])))

\* The engine state is that of wiring w after n ticks.
IsAged(w, n) ==
    IsAgedSelecting(w, n, AgedCurrent(w),
                    SelectBestAction(w.system, AgedCurrent(w), w.config.action_threshold))

\* The long run starts when the history is ten results short of full.
LongStart == HistoryMax - 10

InitLong == \E w \in LongWirings : IsAged(w, LongStart)

\* Under SpecTick: the states IsAged describes are the states the engine
\* reaches from its construction, tick after tick.
AgedStateReached ==
    \A w \in LongWirings :
       (/\ <<system, config, state_readers, action_handlers, tick_callbacks>>
              = <<w.system, w.config, w.state_readers, w.action_handlers, w.tick_callbacks>>
        /\ pc[Main] = "idle"
        /\ tick_count > 0)
          => IsAged(w, tick_count)

NextLong ==
    \/ CallTick(LongTicks)
    \/ TickStep(Main)

SpecLong == InitLong /\ [][NextLong]_vars

(***************************************************************************)
(* Driven mode: run(duration_seconds) called on a thread of the caller's   *)
(* (here the first of the threads), while the controlling thread may call  *)
(* stop().  Time is counted in tick intervals: the sleep of run() takes    *)
(* one, a tick takes any number of them.                                   *)
(***************************************************************************)
\* The values of duration_seconds: None, 0 and the positive durations.
Durations == {None} \cup {Some(d) : d \in 0..MaxDuration}

\* run(duration_seconds) is called; start_time is the time of the call.
CallRun ==
    /\ \A w \in Workers : pc[w] = "unstarted"
    /\ \E d \in Durations : duration' = d
    /\ elapsed' = 0
    /\ pc' = [pc EXCEPT ![1] = "entry"]
    /\ UNCHANGED <<frontend, wiring, manager, running, thread, tick_count, history, frame, stopped>>

\* Time passes while the tick of thread w runs.
TimePasses(w) ==
    /\ pc[w] \in TickPositions
    /\ elapsed < MaxElapsed
    /\ elapsed' = elapsed + 1
    /\ UNCHANGED <<frontend, wiring, manager, running, thread, tick_count, history, pc, frame,
                   stopped, duration>>

\* run(), line 210: "duration_seconds and (time.time() - start_time) >=
\* duration_seconds"; None and 0 are false.
DurationReached(d, e) == d # None /\ d[1] # 0 /\ e >= d[1]

\* run(), lines 210-211: the duration is over, the loop is left.
Break(w) ==
    /\ pc[w] = "sleep"
    /\ DurationReached(duration, elapsed)
    /\ pc' = [pc EXCEPT ![w] = "done"]
    /\ UNCHANGED <<frontend, driven, wiring, manager, running, thread, tick_count, history, frame,
                   stopped>>

\* run(), lines 210 and 213: the duration is not over, the thread sleeps
\* one interval and goes back to the loop test.
Pause(w) ==
    /\ pc[w] = "sleep"
    /\ ~DurationReached(duration, elapsed)
    /\ elapsed' = elapsed + 1
    /\ pc' = [pc EXCEPT ![w] = "loop"]
    /\ UNCHANGED <<frontend, wiring, manager, running, thread, tick_count, history, frame,
                   stopped, duration>>

InitRun == InitWith(BackgroundWirings)

NextRun ==
    \/ CallRun
    \/ Stop
    \/ \E w \in Workers : RunEntry(w)
    \/ \E w \in Workers : LoopTest(w)
    \/ \E w \in Workers : TickStep(w)
    \/ \E w \in Workers : TimePasses(w)
    \/ \E w \in Workers : Break(w)
    \/ \E w \in Workers : Pause(w)

SpecRun == InitRun /\ [][NextRun]_vars

(***************************************************************************)
(* The state manager on its own: update, update_all and snapshot called    *)
(* in any order on a StateManager that has already taken SnapshotStart     *)
(* snapshots of the state load = 7.                                        *)
(***************************************************************************)
SnapshotStart == SnapshotMax - 2

InitManager ==
    /\ system = System("", << >>, << >>, << >>, << >>)
    /\ config = EngineConfig(Rat(1, 2), FALSE)
    /\ state_readers = <<>>
    /\ action_handlers = <<>>
    /\ tick_callbacks = <<>>
    /\ current = ("load" :> Int2R(7))
    /\ snapshots = [i \in 1..SnapshotStart |-> StateSnapshot(i - 1, "load" :> Int2R(7))]
    /\ clock = SnapshotStart
    /\ running = FALSE
    /\ thread = None
    /\ tick_count = 0
    /\ history = <<>>
    /\ pc = [t \in Threads |-> IF t = Main THEN "idle" ELSE "unstarted"]
    /\ frame = [t \in Threads |-> EmptyFrame]
    /\ stopped = FALSE
    /\ duration = None
    /\ elapsed = 0
    /\ FrontEndIdle

\* StateManager.update(name, value).
ManagerUpdate ==
    /\ \E name \in {"load", "heat"}, value \in {Int2R(7), Int2R(9)} :
          current' = UpdateAll(current, name :> value)
    /\ UNCHANGED <<frontend, driven, wiring, snapshots, clock, running, thread, tick_count, history,
                   pc, frame, stopped>>

\* StateManager.update_all(values).
ManagerUpdateAll ==
    /\ \E values \in { << >>, ("load" :> Int2R(9)) @@ ("heat" :> Int2R(7)) } :
          current' = UpdateAll(current, values)
    /\ UNCHANGED <<frontend, driven, wiring, snapshots, clock, running, thread, tick_count, history,
                   pc, frame, stopped>>

\* StateManager.snapshot().
ManagerSnapshot ==
    /\ clock < MaxSnapshots
    /\ snapshots' = DequeAppend(snapshots, StateSnapshot(clock, current))
    /\ clock' = clock + 1
    /\ UNCHANGED <<frontend, driven, wiring, current, running, thread, tick_count, history,
                   pc, frame, stopped>>

NextManager ==
    \/ ManagerUpdate
    \/ ManagerUpdateAll
    \/ ManagerSnapshot

SpecManager == InitManager /\ [][NextManager]_vars

(***************************************************************************)
(* Validation of an AST (System.validate).                                 *)
(***************************************************************************)
\* The sequences of at most n items of the set.
SeqsUpTo(items, n) == UNION {[1..k -> items] : k \in 0..n}

\* ASTs as the parser builds them: every field is what some source text
\* yields (names may repeat, "level: 5..1" is a parameter, priorities are
\* any integer, metrics any identifier).
SampleSystems ==
    { System(name, states, constraints, objectives, actions) :
        name \in {"", "S"},
        states \in SeqsUpTo({"a", "b"}, MaxItems),
        constraints \in SeqsUpTo({Constraint("c", "a", "<=", Int2R(85), "critical"),
                                  Constraint("d", "a", ">=", Int2R(30), "warning"),
                                  Constraint("d", "z", ">=", Int2R(30), "warning")}, MaxItems),
        objectives \in SeqsUpTo({Objective("o", "a", "min", None, 5),
                                 Objective("o", "b", "max", None, 11)}, 1),
        actions \in SeqsUpTo({Action(n, << Parameter("level", r[1], r[2]) >>,
                                     << Effect("a", Int2R(-5), Some(Int2R(-15))) >>, "low") :
                                 n \in {"p", "q"}, r \in {<<1, 5>>, <<5, 1>>}}, MaxItems) }

\* No engine has been constructed.
NoEngine ==
    /\ config = EngineConfig(Rat(1, 2), FALSE)
    /\ state_readers = <<>>
    /\ action_handlers = <<>>
    /\ tick_callbacks = <<>>
    /\ current = <<>>
    /\ snapshots = <<>>
    /\ clock = 0
    /\ running = FALSE
    /\ thread = None
    /\ tick_count = 0
    /\ history = <<>>
    /\ pc = [t \in Threads |-> IF t = Main THEN "idle" ELSE "unstarted"]
    /\ frame = [t \in Threads |-> EmptyFrame]
    /\ stopped = FALSE
    /\ duration = None
    /\ elapsed = 0

engine == <<config, state_readers, action_handlers, tick_callbacks, current, snapshots, clock,
            running, thread, tick_count, history, pc, frame, stopped, duration, elapsed>>

InitValidate ==
    /\ system \in SampleSystems
    /\ NoEngine
    /\ source = <<>>
    /\ line = 1
    /\ indent_stack = <<0>>
    /\ tokens = <<>>
    /\ phase = "parsed"
    /\ outcome = None
    /\ errors = <<>>
    /\ first = None

\* "errors = system.validate()".
ValidateSystem ==
    /\ phase = "parsed"
    /\ errors' = ValidateErrors(system)
    /\ phase' = "validated"
    /\ UNCHANGED <<system, engine, source, line, indent_stack, tokens, outcome, first>>

NextValidate == ValidateSystem

SpecValidate == InitValidate /\ [][NextValidate]_vars

(***************************************************************************)
(* Lexer (src/parser/lexer.py).  A source is a sequence of lines; a line    *)
(* is its count of leading spaces, whether a tab follows them, the lexemes *)
(* that follow (none on a blank or comment-only line), whether a comment   *)
(* ends it and whether a newline does (the last line may lack it).  The    *)
(* value of a NUMBER lexeme is the number float() makes of its numeral.    *)
(***************************************************************************)
Token(type, value, ln) == [type |-> type, value |-> value, line |-> ln]

Lexeme(type, value) == [type |-> type, value |-> value]

Line(indent, text, comment, eol) ==
    [indent |-> indent, tab |-> FALSE, text |-> text, comment |-> comment, eol |-> eol]

\* A line where a tab follows the leading spaces.
TabLine(indent, text, comment, eol) == [Line(indent, text, comment, eol) EXCEPT !.tab = TRUE]

Top(stack) == stack[Len(stack)]

\* "while self.indent_stack[-1] > indent: pop; add DEDENT".
RECURSIVE PopTo(_, _, _, _)
PopTo(stack, toks, indent, ln) ==
    IF Top(stack) > indent
    THEN PopTo(SubSeq(stack, 1, Len(stack) - 1), Append(toks, Token("DEDENT", "", ln)), indent, ln)
    ELSE [stack |-> stack, toks |-> toks]

\* Lexer._handle_indentation at the start of line ln: nothing when the
\* character after the leading spaces is a newline, the end of the source
\* or "#"; otherwise a deeper line pushes its width and adds INDENT, a
\* shallower one pops the larger widths, one DEDENT each.
HandleIndentation(stack, toks, l, ln) ==
    IF l.text = <<>> /\ ~l.tab THEN [stack |-> stack, toks |-> toks]
    ELSE IF l.indent > Top(stack)
         THEN [stack |-> Append(stack, l.indent),
               toks |-> Append(toks, Token("INDENT", l.indent, ln))]
         ELSE IF l.indent < Top(stack)
              THEN PopTo(stack, toks, l.indent, ln)
              ELSE [stack |-> stack, toks |-> toks]

\* The lexemes of a line before its first character that starts no token.
RECURSIVE Legal(_)
Legal(text) ==
    IF text = <<>> \/ Head(text).type = "ILLEGAL" THEN <<>>
    ELSE <<Head(text)>> \o Legal(Tail(text))

\* "if self._peek() in " \t" and self.column > 1": a tab is skipped as
\* whitespace unless it is the first character of its line.
TabUnexpected(l) == l.tab /\ l.indent = 0

\* Lexer.tokenize, one line of the source: indentation, the tokens of the
\* line, NEWLINE; "Unexpected character" raises LexerError.
LexLine ==
    /\ phase = "lexing"
    /\ line <= Len(source)
    /\ LET l == source[line]
           ind == HandleIndentation(indent_stack, tokens, l, line)
           read == IF TabUnexpected(l) THEN <<>> ELSE Legal(l.text)
           toks == ind.toks \o [i \in DOMAIN read |-> Token(read[i].type, read[i].value, line)]
       IN  /\ indent_stack' = ind.stack
           /\ IF TabUnexpected(l) \/ Len(read) < Len(l.text)
              THEN /\ tokens' = toks
                   /\ phase' = "raised"
                   /\ outcome' = Some([raised |-> "LexerError", line |-> line])
                   /\ line' = line
              ELSE /\ tokens' = IF l.eol THEN Append(toks, Token("NEWLINE", "\n", line)) ELSE toks
                   /\ phase' = IF l.eol THEN "lexing" ELSE "flush"
                   /\ outcome' = outcome
                   /\ line' = IF l.eol THEN line + 1 ELSE line
    /\ UNCHANGED <<system, engine, source, errors, first>>

RECURSIVE Dedents(_, _)
Dedents(n, ln) == IF n = 0 THEN <<>> ELSE <<Token("DEDENT", "", ln)>> \o Dedents(n - 1, ln)

\* Lexer.tokenize at the end of the source: the outstanding indents are
\* closed and EOF is added.
LexEnd ==
    /\ \/ phase = "lexing" /\ line > Len(source)
       \/ phase = "flush"
    /\ tokens' = tokens \o Dedents(Len(indent_stack) - 1, line) \o <<Token("EOF", "", line)>>
    /\ indent_stack' = <<0>>
    /\ phase' = "lexed"
    /\ UNCHANGED <<system, engine, source, line, outcome, errors, first>>

(***************************************************************************)
(* Parser (src/parser/parser.py) over the token list of the lexer.  Every  *)
(* parsing method is an operator from the position it starts at to a       *)
(* result: "ok" with the next position and the value built, "raise" with   *)
(* the line of the token ParseError was raised at, or "hang".  A loop      *)
(* hangs when one iteration ends without exception in the parser state it   *)
(* began in and the loop test still holds: the iteration repeats forever.  *)
(* Units are consumed and not kept.                                        *)
(***************************************************************************)
Ok(pos, val) == [st |-> "ok", pos |-> pos, val |-> val, line |-> 0]

\* "raise ParseError(message, self._peek())".
Raise(pos) == [st |-> "raise", pos |-> pos, val |-> <<>>, line |-> tokens[pos].line]

Hang(pos) == [st |-> "hang", pos |-> pos, val |-> <<>>, line |-> tokens[pos].line]

IsAtEnd(pos) == tokens[pos].type = "EOF"

Check(pos, type) == ~IsAtEnd(pos) /\ tokens[pos].type = type

Advance(pos) == IF IsAtEnd(pos) THEN pos ELSE pos + 1

\* Parser._match on one type: the position after it.
Match(pos, type) == IF Check(pos, type) THEN pos + 1 ELSE pos

\* Parser._expect: the value of the token consumed.
Expect(pos, type) == IF Check(pos, type) THEN Ok(pos + 1, tokens[pos].value) ELSE Raise(pos)

RECURSIVE SkipNewlines(_)
SkipNewlines(pos) == IF Check(pos, "NEWLINE") THEN SkipNewlines(pos + 1) ELSE pos

\* The method goes on with F after a call that returned r, and ends with
\* r when the call raised or hangs.
Bind(r, F(_)) == IF r.st = "ok" THEN F(r) ELSE r

\* Parser._parse_value_with_unit: float(number), the unit is optional.
ParseValueWithUnit(pos) ==
    Bind(Expect(pos, "NUMBER"), LAMBDA num :
    Ok(Match(num.pos, "UNIT"), num.val))

\* Parser._parse_effect: "metric: value [to value]".
ParseEffect(pos) ==
    Bind(Expect(pos, "IDENTIFIER"), LAMBDA metric :
    Bind(Expect(metric.pos, "COLON"), LAMBDA colon :
    Bind(ParseValueWithUnit(colon.pos), LAMBDA lo :
    IF Check(lo.pos, "TO")
    THEN Bind(ParseValueWithUnit(lo.pos + 1), LAMBDA hi :
         Ok(hi.pos, Effect(metric.val, lo.val, Some(hi.val))))
    ELSE Ok(lo.pos, Effect(metric.val, lo.val, None)))))

\* The loop of _parse_effects_list: an effect if an IDENTIFIER is next,
\* then _skip_newlines.
RECURSIVE EffectsLoop(_, _)
EffectsLoop(pos, effects) ==
    IF Check(pos, "DEDENT") \/ IsAtEnd(pos) THEN Ok(pos, effects)
    ELSE IF Check(pos, "IDENTIFIER")
    THEN Bind(ParseEffect(pos), LAMBDA effect :
         EffectsLoop(SkipNewlines(effect.pos), Append(effects, effect.val)))
    ELSE IF SkipNewlines(pos) = pos THEN Hang(pos)
    ELSE EffectsLoop(SkipNewlines(pos), effects)

\* Parser._parse_effects_list: the block is empty when no INDENT follows.
ParseEffectsList(pos) ==
    IF Check(pos, "INDENT")
    THEN Bind(EffectsLoop(pos + 1, <<>>), LAMBDA body :
         Ok(Match(body.pos, "DEDENT"), body.val))
    ELSE Ok(pos, <<>>)

\* One parameter "name: min..max" of _parse_parameters_list:
\* int(float(number)) for both ends.
ParseParameter(pos) ==
    Bind(Expect(pos, "IDENTIFIER"), LAMBDA name :
    Bind(Expect(name.pos, "COLON"), LAMBDA colon :
    Bind(Expect(colon.pos, "NUMBER"), LAMBDA lo :
    Bind(Expect(lo.pos, "RANGE"), LAMBDA range :
    Bind(Expect(range.pos, "NUMBER"), LAMBDA hi :
    Ok(hi.pos, Parameter(name.val, RTrunc(lo.val), RTrunc(hi.val))))))))

RECURSIVE ParametersLoop(_, _)
ParametersLoop(pos, parameters) ==
    IF Check(pos, "RBRACKET") THEN Ok(pos, parameters)
    ELSE Bind(ParseParameter(pos), LAMBDA param :
         IF Check(param.pos, "COMMA")
         THEN ParametersLoop(param.pos + 1, Append(parameters, param.val))
         ELSE Ok(param.pos, Append(parameters, param.val)))

\* Parser._parse_parameters_list: "[name: min..max, ...]".
ParseParametersList(pos) ==
    Bind(Expect(pos, "LBRACKET"), LAMBDA open :
    Bind(ParametersLoop(open.pos, <<>>), LAMBDA body :
    Bind(Expect(body.pos, "RBRACKET"), LAMBDA close :
    Ok(close.pos, body.val))))

\* Parser._parse_cost_level.
ParseCostLevel(pos) ==
    IF Check(pos, "LOW") THEN Ok(pos + 1, "low")
    ELSE IF Check(pos, "MEDIUM") THEN Ok(pos + 1, "medium")
    ELSE IF Check(pos, "HIGH") THEN Ok(pos + 1, "high")
    ELSE Raise(pos)

\* One iteration of the loop of _parse_action, up to its _skip_newlines:
\* a "parameters:", "effects:" or "cost:" item sets its field of the action
\* a; any other token is left where it is.
ActionItem(pos, a) ==
    IF Check(pos, "PARAMETERS")
    THEN Bind(Expect(pos + 1, "COLON"), LAMBDA colon :
         Bind(ParseParametersList(colon.pos), LAMBDA parameters :
         Ok(parameters.pos, [a EXCEPT !.parameters = parameters.val])))
    ELSE IF Check(pos, "EFFECTS")
    THEN Bind(Expect(pos + 1, "COLON"), LAMBDA colon :
         Bind(ParseEffectsList(SkipNewlines(colon.pos)), LAMBDA effects :
         Ok(effects.pos, [a EXCEPT !.effects = effects.val])))
    ELSE IF Check(pos, "COST")
    THEN Bind(Expect(pos + 1, "COLON"), LAMBDA colon :
         Bind(ParseCostLevel(colon.pos), LAMBDA cost :
         Ok(cost.pos, [a EXCEPT !.cost = cost.val])))
    ELSE Ok(pos, a)

RECURSIVE ActionLoop(_, _)
ActionLoop(pos, a) ==
    IF Check(pos, "DEDENT") \/ IsAtEnd(pos) THEN Ok(pos, a)
    ELSE Bind(ActionItem(pos, a), LAMBDA item :
         IF SkipNewlines(item.pos) = pos THEN Hang(pos)
         ELSE ActionLoop(SkipNewlines(item.pos), item.val))

\* The body of a section or of an action: entered if an INDENT follows,
\* left through the DEDENT if one follows.
ActionBody(start, a) ==
    IF Check(start, "INDENT")
    THEN Bind(ActionLoop(start + 1, a), LAMBDA body :
         Ok(Match(body.pos, "DEDENT"), body.val))
    ELSE Ok(start, a)

\* Parser._parse_action: "name:" and, if an INDENT follows, its body.
ParseAction(pos) ==
    Bind(Expect(pos, "IDENTIFIER"), LAMBDA name :
    Bind(Expect(name.pos, "COLON"), LAMBDA colon :
    ActionBody(SkipNewlines(colon.pos), Action(name.val, << >>, << >>, "low"))))

\* The loop of _parse_actions_section.
RECURSIVE ActionsLoop(_, _)
ActionsLoop(pos, actions) ==
    IF Check(pos, "DEDENT") \/ IsAtEnd(pos) THEN Ok(pos, actions)
    ELSE IF Check(pos, "IDENTIFIER")
    THEN Bind(ParseAction(pos), LAMBDA action :
         ActionsLoop(SkipNewlines(action.pos), Append(actions, action.val)))
    ELSE IF SkipNewlines(pos) = pos THEN Hang(pos)
    ELSE ActionsLoop(SkipNewlines(pos), actions)

ActionsBody(start) ==
    IF Check(start, "INDENT")
    THEN Bind(ActionsLoop(start + 1, <<>>), LAMBDA body :
         Ok(Match(body.pos, "DEDENT"), body.val))
    ELSE Ok(start, <<>>)

\* Parser._parse_actions_section.
ParseActionsSection(pos) ==
    Bind(Expect(pos, "ACTIONS"), LAMBDA keyword :
    Bind(Expect(keyword.pos, "COLON"), LAMBDA colon :
    ActionsBody(SkipNewlines(colon.pos))))

\* Parser._is_identifier_like.
IsIdentifierLike(pos) ==
    tokens[pos].type \in {"IDENTIFIER", "TARGET", "MIN", "MAX", "MODE", "INTERVAL", "COST"}

\* The rest of _parse_source_path: ".identifier" repeated.
RECURSIVE SourcePathLoop(_, _)
SourcePathLoop(pos, parts) ==
    IF Check(pos, "DOT")
    THEN Bind(Expect(pos + 1, "IDENTIFIER"), LAMBDA part :
         SourcePathLoop(part.pos, Append(parts, part.val)))
    ELSE Ok(pos, parts)

\* Parser._parse_state_binding: "name <- source.path".
ParseStateBinding(pos) ==
    IF ~IsIdentifierLike(pos) THEN Raise(pos)
    ELSE Bind(Expect(pos + 1, "ARROW_LEFT"), LAMBDA arrow :
         Bind(Expect(arrow.pos, "IDENTIFIER"), LAMBDA head :
         Bind(SourcePathLoop(head.pos, << head.val >>), LAMBDA path :
         Ok(path.pos, State(tokens[pos].value, path.val)))))

\* The loop of _parse_state_section.
RECURSIVE StatesLoop(_, _)
StatesLoop(pos, states) ==
    IF Check(pos, "DEDENT") \/ IsAtEnd(pos) THEN Ok(pos, states)
    ELSE IF IsIdentifierLike(pos)
    THEN Bind(ParseStateBinding(pos), LAMBDA state :
         StatesLoop(SkipNewlines(state.pos), Append(states, state.val)))
    ELSE IF SkipNewlines(pos) = pos THEN Hang(pos)
    ELSE StatesLoop(SkipNewlines(pos), states)

StatesBody(start) ==
    IF Check(start, "INDENT")
    THEN Bind(StatesLoop(start + 1, <<>>), LAMBDA body :
         Ok(Match(body.pos, "DEDENT"), body.val))
    ELSE Ok(start, <<>>)

\* Parser._parse_state_section.
ParseStateSection(pos) ==
    Bind(Expect(pos, "STATE"), LAMBDA keyword :
    Bind(Expect(keyword.pos, "COLON"), LAMBDA colon :
    StatesBody(SkipNewlines(colon.pos))))

\* Parser._parse_comparison_operator.
ParseComparisonOperator(pos) ==
    CASE Check(pos, "LTE") -> Ok(pos + 1, "<=")
      [] Check(pos, "GTE") -> Ok(pos + 1, ">=")
      [] Check(pos, "LT") -> Ok(pos + 1, "<")
      [] Check(pos, "GT") -> Ok(pos + 1, ">")
      [] Check(pos, "EQ") -> Ok(pos + 1, "==")
      [] Check(pos, "NEQ") -> Ok(pos + 1, "!=")
      [] OTHER -> Raise(pos)

\* Parser._parse_severity.
ParseSeverity(pos) ==
    IF Check(pos, "CRITICAL") THEN Ok(pos + 1, "critical")
    ELSE IF Check(pos, "WARNING") THEN Ok(pos + 1, "warning")
    ELSE Raise(pos)

\* Parser._parse_constraint: "name : metric op value @severity".
ParseConstraint(pos) ==
    Bind(Expect(pos, "IDENTIFIER"), LAMBDA name :
    Bind(Expect(name.pos, "COLON"), LAMBDA colon :
    Bind(Expect(colon.pos, "IDENTIFIER"), LAMBDA metric :
    Bind(ParseComparisonOperator(metric.pos), LAMBDA operator :
    Bind(ParseValueWithUnit(operator.pos), LAMBDA value :
    Bind(ParseSeverity(value.pos), LAMBDA severity :
    Ok(severity.pos,
       Constraint(name.val, metric.val, operator.val, value.val, severity.val))))))))

\* The loop of _parse_constraints_section.
RECURSIVE ConstraintsLoop(_, _)
ConstraintsLoop(pos, constraints) ==
    IF Check(pos, "DEDENT") \/ IsAtEnd(pos) THEN Ok(pos, constraints)
    ELSE IF Check(pos, "IDENTIFIER")
    THEN Bind(ParseConstraint(pos), LAMBDA constraint :
         ConstraintsLoop(SkipNewlines(constraint.pos), Append(constraints, constraint.val)))
    ELSE IF SkipNewlines(pos) = pos THEN Hang(pos)
    ELSE ConstraintsLoop(SkipNewlines(pos), constraints)

ConstraintsBody(start) ==
    IF Check(start, "INDENT")
    THEN Bind(ConstraintsLoop(start + 1, <<>>), LAMBDA body :
         Ok(Match(body.pos, "DEDENT"), body.val))
    ELSE Ok(start, <<>>)

\* Parser._parse_constraints_section.
ParseConstraintsSection(pos) ==
    Bind(Expect(pos, "CONSTRAINTS"), LAMBDA keyword :
    Bind(Expect(keyword.pos, "COLON"), LAMBDA colon :
    ConstraintsBody(SkipNewlines(colon.pos))))

\* Parser._parse_objective_type: the type and the target value.
ParseObjectiveType(pos) ==
    IF Check(pos, "TARGET")
    THEN Bind(Expect(pos + 1, "LPAREN"), LAMBDA open :
         Bind(ParseValueWithUnit(open.pos), LAMBDA value :
         Bind(Expect(value.pos, "RPAREN"), LAMBDA close :
         Ok(close.pos, << "target", Some(value.val) >>))))
    ELSE IF Check(pos, "MIN") THEN Ok(pos + 1, << "min", None >>)
    ELSE IF Check(pos, "MAX") THEN Ok(pos + 1, << "max", None >>)
    ELSE Raise(pos)

\* Parser._parse_priority: "@priority(n)", int(float(n)).
ParsePriority(pos) ==
    Bind(Expect(pos, "PRIORITY"), LAMBDA keyword :
    Bind(Expect(keyword.pos, "LPAREN"), LAMBDA open :
    Bind(Expect(open.pos, "NUMBER"), LAMBDA num :
    Bind(Expect(num.pos, "RPAREN"), LAMBDA close :
    Ok(close.pos, RTrunc(num.val))))))

\* Parser._parse_objective: "name : metric -> type @priority(n)".
ParseObjective(pos) ==
    Bind(Expect(pos, "IDENTIFIER"), LAMBDA name :
    Bind(Expect(name.pos, "COLON"), LAMBDA colon :
    Bind(Expect(colon.pos, "IDENTIFIER"), LAMBDA metric :
    Bind(Expect(metric.pos, "ARROW_RIGHT"), LAMBDA arrow :
    Bind(ParseObjectiveType(arrow.pos), LAMBDA type :
    Bind(ParsePriority(type.pos), LAMBDA priority :
    Ok(priority.pos,
       Objective(name.val, metric.val, type.val[1], type.val[2], priority.val))))))))

\* The loop of _parse_objectives_section.
RECURSIVE ObjectivesLoop(_, _)
ObjectivesLoop(pos, objectives) ==
    IF Check(pos, "DEDENT") \/ IsAtEnd(pos) THEN Ok(pos, objectives)
    ELSE IF Check(pos, "IDENTIFIER")
    THEN Bind(ParseObjective(pos), LAMBDA objective :
         ObjectivesLoop(SkipNewlines(objective.pos), Append(objectives, objective.val)))
    ELSE IF SkipNewlines(pos) = pos THEN Hang(pos)
    ELSE ObjectivesLoop(SkipNewlines(pos), objectives)

ObjectivesBody(start) ==
    IF Check(start, "INDENT")
    THEN Bind(ObjectivesLoop(start + 1, <<>>), LAMBDA body :
         Ok(Match(body.pos, "DEDENT"), body.val))
    ELSE Ok(start, <<>>)

\* Parser._parse_objectives_section.
ParseObjectivesSection(pos) ==
    Bind(Expect(pos, "OBJECTIVES"), LAMBDA keyword :
    Bind(Expect(keyword.pos, "COLON"), LAMBDA colon :
    ObjectivesBody(SkipNewlines(colon.pos))))

\* The unit of "interval:": a UNIT token, or an IDENTIFIER that reads ms,
\* s, m or h; "ms" when neither follows.  The position after it and the
\* factor that converts to milliseconds.
IntervalUnit(pos) ==
    LET unit == IF Check(pos, "UNIT") \/ (Check(pos, "IDENTIFIER")
                                          /\ tokens[pos].value \in {"ms", "s", "m", "h"})
                THEN tokens[pos].value ELSE "ms"
    IN  [pos |-> IF Check(pos, "UNIT") \/ (Check(pos, "IDENTIFIER")
                                           /\ tokens[pos].value \in {"ms", "s", "m", "h"})
                 THEN pos + 1 ELSE pos,
         factor |-> CASE unit = "s" -> 1000
                      [] unit = "m" -> 60000
                      [] unit = "h" -> 3600000
                      [] OTHER -> 1]

\* Parser._parse_cost_level's counterpart for "mode:".
ParseTickMode(pos) ==
    IF Check(pos, "CONTINUOUS") THEN Ok(pos + 1, "continuous")
    ELSE IF Check(pos, "REACTIVE") THEN Ok(pos + 1, "reactive")
    ELSE Raise(pos)

\* One iteration of the loop of _parse_tick_section, up to its
\* _skip_newlines: "interval:", "action_threshold:" or "mode:" sets its
\* field of the tick; any other token is left where it is.
TickItem(pos, tick) ==
    IF Check(pos, "INTERVAL")
    THEN Bind(Expect(pos + 1, "COLON"), LAMBDA colon :
         Bind(Expect(colon.pos, "NUMBER"), LAMBDA num :
         Ok(IntervalUnit(num.pos).pos,
            [tick EXCEPT !.interval_ms =
                RTrunc(RMul(num.val, Int2R(IntervalUnit(num.pos).factor)))])))
    ELSE IF Check(pos, "ACTION_THRESHOLD")
    THEN Bind(Expect(pos + 1, "COLON"), LAMBDA colon :
         Bind(Expect(colon.pos, "NUMBER"), LAMBDA num :
         Ok(num.pos, [tick EXCEPT !.action_threshold = num.val])))
    ELSE IF Check(pos, "MODE")
    THEN Bind(Expect(pos + 1, "COLON"), LAMBDA colon :
         Bind(ParseTickMode(colon.pos), LAMBDA mode :
         Ok(mode.pos, [tick EXCEPT !.mode = mode.val])))
    ELSE Ok(pos, tick)

RECURSIVE TickLoop(_, _)
TickLoop(pos, tick) ==
    IF Check(pos, "DEDENT") \/ IsAtEnd(pos) THEN Ok(pos, tick)
    ELSE Bind(TickItem(pos, tick), LAMBDA item :
         IF SkipNewlines(item.pos) = pos THEN Hang(pos)
         ELSE TickLoop(SkipNewlines(item.pos), item.val))

TickBody(start) ==
    IF Check(start, "INDENT")
    THEN Bind(TickLoop(start + 1, DefaultTick), LAMBDA body :
         Ok(Match(body.pos, "DEDENT"), body.val))
    ELSE Ok(start, DefaultTick)

\* Parser._parse_tick_section.
ParseTickSection(pos) ==
    Bind(Expect(pos, "TICK"), LAMBDA keyword :
    Bind(Expect(keyword.pos, "COLON"), LAMBDA colon :
    TickBody(SkipNewlines(colon.pos))))

\* "@version("x.y")" after the system's name, if a VERSION token is there:
\* the version string, None without the annotation.
ParseVersion(pos) ==
    IF Check(pos, "VERSION")
    THEN Bind(Expect(pos + 1, "LPAREN"), LAMBDA open :
         Bind(Expect(open.pos, "STRING"), LAMBDA version :
         Bind(Expect(version.pos, "RPAREN"), LAMBDA close :
         Ok(close.pos, Some(version.val)))))
    ELSE Ok(pos, None)

\* Parser._parse_system_decl: "system Name", the version is optional.
ParseSystemDecl(pos) ==
    Bind(Expect(SkipNewlines(pos), "SYSTEM"), LAMBDA keyword :
    Bind(Expect(keyword.pos, "IDENTIFIER"), LAMBDA name :
    Bind(ParseVersion(name.pos), LAMBDA version :
    Ok(SkipNewlines(version.pos),
       [System(name.val, << >>, << >>, << >>, << >>) EXCEPT !.version = version.val]))))

\* The loop of Parser.parse: a section keyword starts its section, any
\* other token is skipped.
RECURSIVE ParseLoop(_, _)
ParseLoop(pos, sys) ==
    IF IsAtEnd(pos) \/ IsAtEnd(SkipNewlines(pos)) THEN Ok(SkipNewlines(pos), sys)
    ELSE IF Check(SkipNewlines(pos), "STATE")
    THEN Bind(ParseStateSection(SkipNewlines(pos)), LAMBDA states :
         ParseLoop(states.pos,
                   [sys EXCEPT !.states = [i \in DOMAIN states.val |-> states.val[i].name],
                               !.paths = [i \in DOMAIN states.val |-> states.val[i].source]]))
    ELSE IF Check(SkipNewlines(pos), "CONSTRAINTS")
    THEN Bind(ParseConstraintsSection(SkipNewlines(pos)), LAMBDA constraints :
         ParseLoop(constraints.pos, [sys EXCEPT !.constraints = constraints.val]))
    ELSE IF Check(SkipNewlines(pos), "OBJECTIVES")
    THEN Bind(ParseObjectivesSection(SkipNewlines(pos)), LAMBDA objectives :
         ParseLoop(objectives.pos, [sys EXCEPT !.objectives = objectives.val]))
    ELSE IF Check(SkipNewlines(pos), "ACTIONS")
    THEN Bind(ParseActionsSection(SkipNewlines(pos)), LAMBDA actions :
         ParseLoop(actions.pos, [sys EXCEPT !.actions = actions.val]))
    ELSE IF Check(SkipNewlines(pos), "TICK")
    THEN Bind(ParseTickSection(SkipNewlines(pos)), LAMBDA tick :
         ParseLoop(tick.pos, [sys EXCEPT !.tick = Some(tick.val)]))
    ELSE ParseLoop(Advance(SkipNewlines(pos)), sys)

\* Parser.parse.
Parse == Bind(ParseSystemDecl(1), LAMBDA decl : ParseLoop(decl.pos, decl.val))

\* parse_string, after tokenize: Parser(tokens).parse() returns the AST,
\* raises ParseError or does not return.
ParseTokens ==
    /\ phase = "lexed"
    /\ LET result == Parse
       IN  /\ phase' = CASE result.st = "ok" -> "parsed"
                         [] result.st = "raise" -> "raised"
                         [] result.st = "hang" -> "hang"
           /\ outcome' = CASE result.st = "ok" -> Some([returned |-> result.val])
                           [] result.st = "raise" ->
                                 Some([raised |-> "ParseError", line |-> result.line])
                           [] result.st = "hang" -> None
           /\ system' = IF result.st = "ok" THEN result.val ELSE system
    /\ UNCHANGED <<engine, source, line, indent_stack, tokens, errors, first>>

(***************************************************************************)
(* parse_string on sources of the shape                                    *)
(*     system T                                                            *)
(*     state:                                                              *)
(*       temperature <- sensors.temp                                       *)
(*     actions:                                                            *)
(*       increase_fan:                                                     *)
(*         parameters: [level: 1..5]                                       *)
(*         effects:                                                        *)
(*           temperature: -5 to -15                                        *)
(*         cost: low                                                       *)
(* where the effect line has any indentation, a comment line may precede   *)
(* it (after one space, or after the spaces of the effect line and a tab), *)
(* the parameters and cost lines are optional, the cost line may end with  *)
(* a character that starts no token, and the last line may lack its        *)
(* newline.                                                                *)
(***************************************************************************)
Word(type) == Lexeme(type, "")

Name(value) == Lexeme("IDENTIFIER", value)

Number(value) == Lexeme("NUMBER", Int2R(value))

EffectsHeader == << Word("EFFECTS"), Word("COLON") >>

EffectText == << Name("temperature"), Word("COLON"), Number(-5), Word("TO"), Number(-15) >>

SampleSource(width, commented, parameters, cost, illegal, eol) ==
    LET body ==
          << Line(0, << Word("SYSTEM"), Name("T") >>, FALSE, TRUE),
             Line(0, << Word("STATE"), Word("COLON") >>, FALSE, TRUE),
             Line(2, << Name("temperature"), Word("ARROW_LEFT"),
                        Name("sensors"), Word("DOT"), Name("temp") >>, FALSE, TRUE),
             Line(0, << Word("ACTIONS"), Word("COLON") >>, FALSE, TRUE),
             Line(2, << Name("increase_fan"), Word("COLON") >>, FALSE, TRUE) >>
          \o (IF parameters
              THEN << Line(4, << Word("PARAMETERS"), Word("COLON"), Word("LBRACKET"),
                                 Name("level"), Word("COLON"), Number(1), Word("RANGE"),
                                 Number(5), Word("RBRACKET") >>, FALSE, TRUE) >>
              ELSE << >>)
          \o << Line(4, EffectsHeader, FALSE, TRUE) >>
          \o (IF commented = "spaces" THEN << Line(1, << >>, TRUE, TRUE) >>
              ELSE IF commented = "tab" THEN << TabLine(width, << >>, TRUE, TRUE) >>
              ELSE << >>)
          \o << Line(width, EffectText, FALSE, TRUE) >>
          \o (IF cost
              THEN << Line(4, << Word("COST"), Word("COLON"), Word("LOW") >>
                                 \o (IF illegal THEN << Word("ILLEGAL") >> ELSE << >>),
                           FALSE, TRUE) >>
              ELSE << >>)
    IN  [body EXCEPT ![Len(body)].eol = eol]

SampleSources ==
    { SampleSource(width, commented, parameters, cost, illegal, eol) :
        width \in 0..MaxIndent, commented \in {"no", "spaces", "tab"}, parameters \in BOOLEAN,
        cost \in BOOLEAN, illegal \in BOOLEAN, eol \in BOOLEAN }

\* parse_string(source) is called.
InitParse ==
    /\ system = System("", << >>, << >>, << >>, << >>)
    /\ NoEngine
    /\ source \in SampleSources
    /\ line = 1
    /\ indent_stack = <<0>>
    /\ tokens = <<>>
    /\ phase = "lexing"
    /\ outcome = None
    /\ errors = <<>>
    /\ first = None

NextParse ==
    \/ LexLine
    \/ LexEnd
    \/ ParseTokens
    \/ ValidateSystem

SpecParse == InitParse /\ [][NextParse]_vars

(***************************************************************************)
(* str(system) (ast.py, the __str__ methods), as the lines of the text and *)
(* the lexemes the lexer reads on each line.                               *)
(***************************************************************************)
\* Lexer.KEYWORDS, for the words used in the sources below.
KEYWORDS ==
    [w \in {"target", "min", "max", "mode", "interval", "cost", "low", "medium", "high",
            "continuous", "reactive"} |->
        CASE w = "target" -> "TARGET"
          [] w = "min" -> "MIN"
          [] w = "max" -> "MAX"
          [] w = "mode" -> "MODE"
          [] w = "interval" -> "INTERVAL"
          [] w = "cost" -> "COST"
          [] w = "low" -> "LOW"
          [] w = "medium" -> "MEDIUM"
          [] w = "high" -> "HIGH"
          [] w = "continuous" -> "CONTINUOUS"
          [] w = "reactive" -> "REACTIVE"]

\* Lexer._read_identifier on a word: a keyword token or an IDENTIFIER.
ReadIdentifier(value) ==
    Lexeme(IF value \in DOMAIN KEYWORDS THEN KEYWORDS[value] ELSE "IDENTIFIER", value)

\* The least k >= from with |v| * 10^k >= 1 (v # 0).
RECURSIVE Exponent(_, _)
Exponent(v, from) == IF RLe(Int2R(1), RAbs(v)) THEN from ELSE Exponent(RMul(v, Int2R(10)), from + 1)

RECURSIVE Power10(_)
Power10(k) == IF k = 0 THEN 1 ELSE 10 * Power10(k - 1)

\* What the lexer reads in str(x) for a float x (of magnitude below 1e16):
\* the numeral of x, e.g. "85.0" or "0.5"; for 0 < |x| < 0.0001 the text is
\* in exponent form, e.g. "1e-05", where _read_number reads the numeral
\* "1", consumes the "e" as a unit it does not know, and the next numeral
\* read is "-05".
FloatStr(v) ==
    IF v = RZero \/ RLe(Rat(1, 10000), RAbs(v))
    THEN << Lexeme("NUMBER", v) >>
    ELSE << Lexeme("NUMBER", RMul(v, Int2R(Power10(Exponent(v, 0))))),
            Lexeme("NUMBER", Int2R(-Exponent(v, 0))) >>

\* str(x) for an int x.
IntStr(n) == << Lexeme("NUMBER", Int2R(n)) >>

\* SourcePath.__str__: ".".join(parts).
RECURSIVE PathStr(_)
PathStr(parts) ==
    IF Len(parts) = 1 THEN << ReadIdentifier(parts[1]) >>
    ELSE << ReadIdentifier(parts[1]), Word("DOT") >> \o PathStr(Tail(parts))

\* State.__str__.
StateStr(name, path) == << ReadIdentifier(name), Word("ARROW_LEFT") >> \o PathStr(path)

OperatorLexeme(operator) ==
    CASE operator = "<=" -> Word("LTE")
      [] operator = ">=" -> Word("GTE")
      [] operator = "<" -> Word("LT")
      [] operator = ">" -> Word("GT")
      [] operator = "==" -> Word("EQ")
      [] operator = "!=" -> Word("NEQ")

\* Constraint.__str__.
ConstraintStr(c) ==
    << ReadIdentifier(c.name), Word("COLON"), ReadIdentifier(c.metric), OperatorLexeme(c.operator) >>
    \o FloatStr(c.value)
    \o << Word(IF c.severity = "critical" THEN "CRITICAL" ELSE "WARNING") >>

\* Objective.__str__.
ObjectiveStr(o) ==
    << ReadIdentifier(o.name), Word("COLON"), ReadIdentifier(o.metric), Word("ARROW_RIGHT") >>
    \o (IF o.type = "target"
        THEN << ReadIdentifier("target"), Word("LPAREN") >> \o FloatStr(o.target_value[1])
             \o << Word("RPAREN") >>
        ELSE << ReadIdentifier(o.type) >>)
    \o << Word("PRIORITY"), Word("LPAREN") >> \o IntStr(o.priority) \o << Word("RPAREN") >>

\* Parameter.__str__ for every parameter, joined by ", ".
RECURSIVE ParametersStr(_)
ParametersStr(parameters) ==
    IF parameters = <<>> THEN <<>>
    ELSE << ReadIdentifier(Head(parameters).name), Word("COLON") >>
         \o IntStr(Head(parameters).min_value) \o << Word("RANGE") >>
         \o IntStr(Head(parameters).max_value)
         \o (IF Len(parameters) > 1 THEN << Word("COMMA") >> ELSE <<>>)
         \o ParametersStr(Tail(parameters))

\* Effect.__str__.
EffectStr(e) ==
    << ReadIdentifier(e.metric), Word("COLON") >> \o FloatStr(e.min_effect)
    \o (IF e.max_effect # None THEN << Word("TO") >> \o FloatStr(e.max_effect[1]) ELSE <<>>)

\* Action.__str__, indented by two spaces as System.__str__ does.
ActionStr(a) ==
    << Line(2, << ReadIdentifier(a.name), Word("COLON") >>, FALSE, TRUE) >>
    \o (IF a.parameters # <<>>
        THEN << Line(4, << Word("PARAMETERS"), Word("COLON"), Word("LBRACKET") >>
                        \o ParametersStr(a.parameters) \o << Word("RBRACKET") >>, FALSE, TRUE) >>
        ELSE <<>>)
    \o << Line(4, EffectsHeader, FALSE, TRUE) >>
    \o [i \in DOMAIN a.effects |-> Line(6, EffectStr(a.effects[i]), FALSE, TRUE)]
    \o << Line(4, << ReadIdentifier("cost"), Word("COLON"), ReadIdentifier(a.cost) >>, FALSE, TRUE) >>

RECURSIVE ActionsStr(_)
ActionsStr(actions) ==
    IF actions = <<>> THEN <<>> ELSE ActionStr(Head(actions)) \o ActionsStr(Tail(actions))

\* Tick.__str__: the last lines of the text, the last one without newline.
TickStr(tick) ==
    << Line(0, << Word("TICK"), Word("COLON") >>, FALSE, TRUE),
       Line(2, << ReadIdentifier("interval"), Word("COLON") >> \o IntStr(tick.interval_ms)
               \o << ReadIdentifier("ms") >>, FALSE, TRUE),
       Line(2, << Word("ACTION_THRESHOLD"), Word("COLON") >> \o FloatStr(tick.action_threshold),
            FALSE, TRUE),
       Line(2, << ReadIdentifier("mode"), Word("COLON"), ReadIdentifier(tick.mode) >>,
            FALSE, FALSE) >>

Blank == Line(0, << >>, FALSE, TRUE)

\* System.__str__: the version is written "if self.version", a section
\* if its list is not empty, the tick block if there is one.
Str(sys) ==
    << Line(0, << Word("SYSTEM"), ReadIdentifier(sys.name) >>
               \o (IF sys.version # None /\ sys.version[1] # ""
                   THEN << Word("VERSION"), Word("LPAREN"), Lexeme("STRING", sys.version[1]),
                           Word("RPAREN") >>
                   ELSE <<>>), FALSE, TRUE),
       Blank >>
    \o (IF sys.states # <<>>
        THEN << Line(0, << Word("STATE"), Word("COLON") >>, FALSE, TRUE) >>
             \o [i \in DOMAIN sys.states |->
                    Line(2, StateStr(sys.states[i], sys.paths[i]), FALSE, TRUE)]
             \o << Blank >>
        ELSE <<>>)
    \o (IF sys.constraints # <<>>
        THEN << Line(0, << Word("CONSTRAINTS"), Word("COLON") >>, FALSE, TRUE) >>
             \o [i \in DOMAIN sys.constraints |->
                    Line(2, ConstraintStr(sys.constraints[i]), FALSE, TRUE)]
             \o << Blank >>
        ELSE <<>>)
    \o (IF sys.objectives # <<>>
        THEN << Line(0, << Word("OBJECTIVES"), Word("COLON") >>, FALSE, TRUE) >>
             \o [i \in DOMAIN sys.objectives |->
                    Line(2, ObjectiveStr(sys.objectives[i]), FALSE, TRUE)]
             \o << Blank >>
        ELSE <<>>)
    \o (IF sys.actions # <<>>
        THEN << Line(0, << Word("ACTIONS"), Word("COLON") >>, FALSE, TRUE) >>
             \o ActionsStr(sys.actions)
             \o << Blank >>
        ELSE <<>>)
    \o (IF sys.tick # None THEN TickStr(sys.tick[1]) ELSE <<>>)

\* "second = parse_string(str(first))" begins: the text of the AST that
\* parse_string returned is given to a new lexer.
Reemit ==
    /\ phase = "parsed"
    /\ first = None
    /\ first' = Some(system)
    /\ source' = Str(system)
    /\ line' = 1
    /\ indent_stack' = <<0>>
    /\ tokens' = <<>>
    /\ phase' = "lexing"
    /\ UNCHANGED <<system, engine, outcome, errors>>

(***************************************************************************)
(* parse_string on well-formed sources with every section, then on the     *)
(* text of the AST:                                                        *)
(*     system T @version("1.0")                                            *)
(*     state:                                                              *)
(*       temperature <- sensors.cpu.temp                                   *)
(*     constraints:                                                        *)
(*       max_temp: temperature <= 85 @critical                             *)
(*     objectives:                                                         *)
(*       comfort: temperature -> target(65) @priority(8)                   *)
(*     actions:                                                            *)
(*       increase_fan:                                                     *)
(*         parameters: [level: 1..5]                                       *)
(*         effects:                                                        *)
(*           temperature: -5 to -15                                        *)
(*         cost: low                                                       *)
(*     tick:                                                               *)
(*       interval: 2 s                                                     *)
(*       action_threshold: 0.3                                             *)
(* The version is absent, empty or "1.0"; the state is named temperature   *)
(* or target; the threshold of the constraint is 85 or 0.00001; the        *)
(* objective has a target or is "min"; the action is absent, or has its    *)
(* parameters line or not, and a ranged or a single effect; the tick block *)
(* is absent, empty or as shown.                                           *)
(***************************************************************************)
RoundTripSource(version, state, threshold, target, action, tick) ==
    << Line(0, << Word("SYSTEM"), Name("T") >>
               \o (IF version # None
                   THEN << Word("VERSION"), Word("LPAREN"), Lexeme("STRING", version[1]),
                           Word("RPAREN") >>
                   ELSE <<>>), FALSE, TRUE),
       Line(0, << Word("STATE"), Word("COLON") >>, FALSE, TRUE),
       Line(2, << ReadIdentifier(state), Word("ARROW_LEFT"), Name("sensors"), Word("DOT"),
                  Name("cpu"), Word("DOT"), Name("temp") >>, FALSE, TRUE),
       Line(0, << Word("CONSTRAINTS"), Word("COLON") >>, FALSE, TRUE),
       Line(2, << Name("max_temp"), Word("COLON"), Name("temperature"), Word("LTE"),
                  Lexeme("NUMBER", threshold), Word("CRITICAL") >>, FALSE, TRUE),
       Line(0, << Word("OBJECTIVES"), Word("COLON") >>, FALSE, TRUE),
       Line(2, << Name("comfort"), Word("COLON"), Name("temperature"), Word("ARROW_RIGHT") >>
               \o (IF target THEN << Word("TARGET"), Word("LPAREN"), Number(65), Word("RPAREN") >>
                   ELSE << Word("MIN") >>)
               \o << Word("PRIORITY"), Word("LPAREN"), Number(8), Word("RPAREN") >>,
            FALSE, TRUE) >>
    \o (IF action = "none" THEN <<>>
        ELSE << Line(0, << Word("ACTIONS"), Word("COLON") >>, FALSE, TRUE),
                Line(2, << Name("increase_fan"), Word("COLON") >>, FALSE, TRUE) >>
             \o (IF action = "ranged"
                 THEN << Line(4, << Word("PARAMETERS"), Word("COLON"), Word("LBRACKET"),
                                    Name("level"), Word("COLON"), Number(1), Word("RANGE"),
                                    Number(5), Word("RBRACKET") >>, FALSE, TRUE) >>
                 ELSE <<>>)
             \o << Line(4, EffectsHeader, FALSE, TRUE),
                   Line(6, IF action = "ranged" THEN EffectText
                           ELSE << Name("temperature"), Word("COLON"), Number(-5) >>,
                        FALSE, TRUE),
                   Line(4, << Word("COST"), Word("COLON"), Word("LOW") >>, FALSE, TRUE) >>)
    \o (IF tick = "none" THEN <<>>
        ELSE << Line(0, << Word("TICK"), Word("COLON") >>, FALSE, TRUE) >>
             \o (IF tick = "full"
                 THEN << Line(2, << Word("INTERVAL"), Word("COLON"), Number(2), Name("s") >>,
                              FALSE, TRUE),
                         Line(2, << Word("ACTION_THRESHOLD"), Word("COLON"),
                                    Lexeme("NUMBER", Rat(3, 10)) >>, FALSE, TRUE) >>
                 ELSE <<>>))

RoundTripSources ==
    { RoundTripSource(version, state, threshold, target, action, tick) :
        version \in {None, Some(""), Some("1.0")},
        state \in {"temperature", "target"},
        threshold \in {Int2R(85), Rat(1, 100000)},
        target \in BOOLEAN,
        action \in {"none", "single", "ranged"},
        tick \in {"none", "empty", "full"} }

InitRoundTrip ==
    /\ system = System("", << >>, << >>, << >>, << >>)
    /\ NoEngine
    /\ source \in RoundTripSources
    /\ line = 1
    /\ indent_stack = <<0>>
    /\ tokens = <<>>
    /\ phase = "lexing"
    /\ outcome = None
    /\ errors = <<>>
    /\ first = None

NextRoundTrip ==
    \/ LexLine
    \/ LexEnd
    \/ ParseTokens
    \/ Reemit

SpecRoundTrip == InitRoundTrip /\ [][NextRoundTrip]_vars

(***************************************************************************)
(* Claims about background mode (specification Spec).                      *)
(***************************************************************************)
\* A worker that executes the loop of run(): at its test, in a tick, asleep.
InRunLoop(w) == pc[w] \in {"loop", "sleep"} \cup TickPositions

\* A thread that executes tick().
InTick(t) == pc[t] \in TickPositions

\* C1: under every interleaving of start() and stop() with the worker, at
\* most one worker executes the loop of run() and no two executions of
\* tick() overlap.
C1_SingleWorker ==
    /\ Cardinality({w \in Workers : InRunLoop(w)}) <= 1
    /\ Cardinality({t \in Threads : InTick(t)}) <= 1

\* C2: once stop() has been called and start() is not called afterwards, a
\* worker finishes at most the tick it is in and begins no further tick.
C2_NoTickAfterStop == \A w \in Workers : ~frame[w].after_stop

\* C3: no failure while a tick executes ends the engine: tick() returns a
\* result and the loop of run() goes on, for every validated system.
C3_TickNeverRaises ==
    Validate(system) => \A t \in Threads : pc[t] # "crashed" /\ ~frame[t].raised


(***************************************************************************)
(* Claims about the history of tick results (specification SpecLong).      *)
(***************************************************************************)
\* C4 as stated: the history never holds more than 1000 results, in every
\* reachable state (also between the append and the compaction of a tick).
C4_HistoryBounded == Len(history) <= HistoryMax

\* The ticks that have appended their result and not yet compacted.
Uncompacted == {t \in Threads : pc[t] = "compact"}

\* C4 amended: the history holds at most 1000 results plus one for every
\* tick that is between its append and its compaction; so at most 1000
\* whenever no tick is, in particular whenever tick() has returned.
C4_HistoryBoundedOutsideAppend == Len(history) <= HistoryMax + Cardinality(Uncompacted)

\* C4 witness: a tick has just compacted an overfull history.
C4_Compacted ==
    /\ pc[Main] = "notify"
    /\ tick_count = HistoryMax + 1
    /\ Len(history) = HistoryKeep


(***************************************************************************)
(* Claims about one tick (specification SpecTick).                         *)
(***************************************************************************)
\* The tick of thread t has made its selection (and did not raise); until
\* the next tick begins, current is the state the selection was made in.
Decided(t) ==
    /\ frame[t].tick > 0
    /\ ~frame[t].raised
    /\ pc[t] \notin {"read", "snapshot", "decide"}

\* The tick of thread t has returned.
Returned(t) == Decided(t) /\ pc[t] = AfterTick(t)

C6_ResolvingPreferred ==
    \A t \in Threads :
       Decided(t) =>
          LET sc == ScoredCandidates(system, current)
              sel == frame[t].selected
              resolving == {i \in DOMAIN sc : RLt(RZero, sc[i].constraint_resolution_score)}
          IN  /\ (frame[t].violations # <<>> /\ resolving # {} /\ sel # None)
                    => RLt(RZero, sel[1].constraint_resolution_score)
              /\ resolving = {} =>
                    /\ sel # None =>
                          /\ \E i \in DOMAIN sc : sc[i] = sel[1]
                          /\ \A j \in DOMAIN sc : RLe(sc[j].score, sel[1].score)
                    /\ sel = None =>
                          \A j \in DOMAIN sc : RLe(sc[j].score, config.action_threshold)

\* C6 witness: the selected candidate resolves a violation and a candidate
\* that resolves none has a higher score.
C6_HigherScoreSetAside ==
    \E t \in Threads :
       /\ Decided(t)
       /\ frame[t].violations # <<>>
       /\ frame[t].selected # None
       /\ RLt(RZero, frame[t].selected[1].constraint_resolution_score)
       /\ LET sc == ScoredCandidates(system, current)
          IN  \E j \in DOMAIN sc :
                 /\ sc[j].constraint_resolution_score = RZero
                 /\ RLt(frame[t].selected[1].score, sc[j].score)

\* C7: a tick calls at most one handler, the one registered under the name
\* of its selected action, with that candidate's parameters; none when
\* nothing is selected.
C7_OneHandlerCall ==
    \A t \in Threads :
       LET f == frame[t]
       IN  /\ Len(f.calls) <= 1
           /\ f.calls # <<>> =>
                 /\ f.selected # None
                 /\ f.calls[1].name = f.selected[1].action.name
                 /\ f.calls[1].name \in DOMAIN action_handlers
                 /\ f.calls[1].parameters = f.selected[1].parameters

\* C7 witness: a returned tick called a handler with a parameter.
C7_HandlerCalledWithParameter ==
    \E t \in Threads :
       /\ Returned(t)
       /\ frame[t].calls # <<>>
       /\ DOMAIN frame[t].calls[1].parameters # {}

\* C8: in a dry run no handler is called and no tick is marked executed,
\* while the selection is the one the selection rule makes.
C8_DryRun ==
    config.dry_run =>
       /\ \A t \in Threads :
             /\ frame[t].calls = <<>>
             /\ ~frame[t].executed
             /\ Decided(t) =>
                   frame[t].selected = SelectBestAction(system, current, config.action_threshold)
       /\ \A i \in DOMAIN history : ~history[i].action_executed

\* C8 witness: a dry-run tick that selected an action with a registered
\* handler has been recorded.
C8_DryRunSelected ==
    /\ config.dry_run
    /\ \E i \in DOMAIN history :
          /\ history[i].selected_action # None
          /\ history[i].selected_action[1].action.name \in DOMAIN action_handlers

\* C9: when the handler raises, the result records the candidate as
\* selected and not executed, is appended to the history and delivered to
\* every observer, and the handler is not called again; a tick is marked
\* executed only if a registered handler was called and returned.
C9_HandlerFailure ==
    \A t \in Threads :
       LET f == frame[t]
       IN  /\ f.executed =>
                 /\ f.calls # <<>>
                 /\ f.calls[1].returned
                 /\ f.calls[1].name \in DOMAIN action_handlers
           /\ (f.calls # <<>> /\ ~f.calls[1].returned) =>
                 /\ Len(f.calls) = 1
                 /\ ~f.executed
                 /\ pc[t] \in {"compact", "notify", AfterTick(t)} =>
                       /\ f.result # None
                       /\ f.selected # None
                       /\ f.result[1].selected_action = f.selected
                       /\ ~f.result[1].action_executed
                       /\ history # <<>>
                       /\ history[Len(history)] = f.result[1]
                 /\ pc[t] = AfterTick(t) =>
                       /\ Len(f.delivered) = Len(tick_callbacks)
                       /\ \A i \in DOMAIN f.delivered : f.delivered[i].result = f.result[1]

\* C9 witness: a tick whose handler raised has returned and its result was
\* delivered.
C9_HandlerRaised ==
    \E t \in Threads :
       /\ Returned(t)
       /\ frame[t].calls # <<>>
       /\ ~frame[t].calls[1].returned
       /\ frame[t].delivered # <<>>

\* C10: when a reader raises, the state keeps the value it had before the
\* tick, the states whose readers returned have the values returned, and
\* the tick goes on to its result with the value kept.
C10_FailedReaderKeepsValue ==
    \A t \in Threads :
       LET f == frame[t]
       IN  (f.tick > 0 /\ pc[t] # "read") =>
              /\ \A n \in f.read_failed :
                    /\ n \in DOMAIN current <=> n \in DOMAIN f.before
                    /\ n \in DOMAIN current => current[n] = f.before[n]
              /\ \A n \in DOMAIN f.values :
                    /\ n \in DOMAIN current
                    /\ current[n] = f.values[n]
              /\ f.result # None =>
                    \A i \in DOMAIN f.result[1].constraints :
                       LET c == f.result[1].constraints[i]
                       IN  c.constraint.metric \in f.read_failed
                              => c.current_value = StateGet(f.before, c.constraint.metric)
              /\ (pc[t] = AfterTick(t) /\ ~f.raised) =>
                    /\ f.result # None
                    /\ history # <<>>
                    /\ history[Len(history)] = f.result[1]

\* C10 witness: a returned tick in which the reader of a constrained state
\* raised, the state having a value from an earlier tick, and another
\* reader returned a new value.
C10_ReaderRaised ==
    \E t \in Threads :
       /\ Returned(t)
       /\ \E n \in frame[t].read_failed :
             /\ n \in DOMAIN frame[t].before
             /\ \E i \in DOMAIN frame[t].result[1].constraints :
                   frame[t].result[1].constraints[i].constraint.metric = n
       /\ \E m \in DOMAIN frame[t].values :
             /\ m \in DOMAIN frame[t].before
             /\ frame[t].before[m] # frame[t].values[m]

\* C11: when a tick has returned, every registered observer has been called
\* exactly once with the result of that tick, in registration order, also
\* after an observer that raised; the result is the last of the history,
\* and the tick counter and the state are those of the tick.
C11_ObserversNotified ==
    \A t \in Threads :
       LET f == frame[t]
       IN  /\ (f.tick > 0 /\ pc[t] \in TickPositions) => f.delivered = <<>>
           /\ Returned(t) =>
                 /\ Len(f.delivered) = Len(tick_callbacks)
                 /\ \A i \in DOMAIN f.delivered :
                       /\ f.delivered[i].observer = i
                       /\ f.delivered[i].result = f.result[1]
                 /\ f.result[1] = TickResult(f)
                 /\ history # <<>>
                 /\ history[Len(history)] = f.result[1]
                 /\ tick_count = f.tick
                 /\ \A n \in DOMAIN f.values : current[n] = f.values[n]

\* C11 witness: the first observer raised and the second was called with
\* the result.
C11_ObserverRaised ==
    \E t \in Threads :
       /\ Returned(t)
       /\ Len(frame[t].delivered) >= 2
       /\ ~frame[t].delivered[1].returned
       /\ frame[t].delivered[2].result = frame[t].result[1]

\* The predicate "x op t" of a constraint.
Holds(x, op, t) ==
    CASE op = "<=" -> RLe(x, t)
      [] op = "<"  -> RLt(x, t)
      [] op = ">=" -> RLe(t, x)
      [] op = ">"  -> RLt(t, x)
      [] op = "==" -> RLe(x, t) /\ RLe(t, x)
      [] op = "!=" -> RLt(x, t) \/ RLt(t, x)

\* C12: in every constraint status of a tick the margin is >= 0 exactly when
\* the constraint's predicate holds of the value, and a violation is
\* reported exactly when the margin is < 0.
C12_MarginSign ==
    \A t \in Threads :
       \A i \in DOMAIN frame[t].constraints :
          LET st == frame[t].constraints[i]
          IN  /\ RLe(RZero, st.margin)
                    <=> Holds(st.current_value, st.constraint.operator, st.threshold)
              /\ IsViolated(st) <=> RLt(st.margin, RZero)

\* v lies in the closed interval between a and b.
RBetween(v, a, b) == (RLe(a, v) /\ RLe(v, b)) \/ (RLe(b, v) /\ RLe(v, a))

\* C13: once a tick has scored the candidates, a value was produced for
\* every ranged effect of every candidate with parameters (no exception,
\* also when the first parameter has min = max); the value lies between
\* low and high, is low at the parameter's minimum and high at its maximum.
C13_RangedEffectWithinBounds ==
    \A t \in Threads :
       (frame[t].tick > 0 /\ pc[t] \notin {"read", "snapshot", "decide"}) =>
          /\ ~frame[t].raised
          /\ LET cands == GenerateCandidates(system)
             IN  \A i \in DOMAIN cands :
                    LET a == cands[i].action
                        ps == cands[i].parameters
                    IN  (DOMAIN ps # {} /\ FirstParam(a).min_value < FirstParam(a).max_value) =>
                           \A j \in DOMAIN a.effects :
                              a.effects[j].max_effect # None =>
                                 LET v == EffectValue(a, ps, a.effects[j])
                                     low == a.effects[j].min_effect
                                     high == a.effects[j].max_effect[1]
                                     p == ps[FirstParam(a).name]
                                 IN  /\ RBetween(v, low, high)
                                     /\ p = FirstParam(a).min_value => v = low
                                     /\ p = FirstParam(a).max_value => v = high

\* Candidates that differ in the name and the cost of their action only.
SameButCost(c, d) ==
    /\ c.parameters = d.parameters
    /\ c.action.parameters = d.action.parameters
    /\ c.action.effects = d.action.effects
    /\ c.action.cost # d.action.cost

CostRank(cost) == CASE cost = "low" -> 1 [] cost = "medium" -> 2 [] cost = "high" -> 3

NameRepeated(items) ==
    \E i, j \in DOMAIN items : i # j /\ items[i].name = items[j].name

\* C15: validate() returns a non-empty error list for every AST in which two
\* states, two constraints, two objectives or two actions share a name.
C15_NamesUnique ==
    phase = "validated" =>
       ((\/ \E i, j \in DOMAIN system.states : i # j /\ system.states[i] = system.states[j]
         \/ NameRepeated(system.constraints)
         \/ NameRepeated(system.objectives)
         \/ NameRepeated(system.actions))
           => errors # <<>>)

\* C16: validate() returns a non-empty error list for every AST that has an
\* action parameter with min_value > max_value.
C16_ParameterRanges ==
    phase = "validated" =>
       ((\E i \in DOMAIN system.actions :
            \E k \in DOMAIN system.actions[i].parameters :
               system.actions[i].parameters[k].min_value
                  > system.actions[i].parameters[k].max_value)
           => errors # <<>>)

\* The last line tokenize() has gone through without raising.
LastLexed == IF phase = "flush" THEN Len(source) ELSE line - 1

\* C17: a line whose width is smaller than the top of the indent stack and
\* is not the width found after popping the larger ones raises LexerError;
\* so a non-blank line that was tokenized without LexerError has left its
\* width on top of the stack.
C17_IndentMismatchRaises ==
    (phase \in {"lexing", "flush"} /\ LastLexed >= 1 /\ source[LastLexed].text # <<>>)
       => Top(indent_stack) = source[LastLexed].indent

\* Line j is the first non-blank line after the "effects:" line k, has the
\* form of an effect and is not indented more than line k.
UnderIndentedEffect(k, j) ==
    /\ k < j
    /\ source[k].text = EffectsHeader
    /\ \A i \in (k + 1)..(j - 1) : source[i].text = <<>>
    /\ Len(source[j].text) >= 3
    /\ source[j].text[1].type = "IDENTIFIER"
    /\ source[j].text[2].type = "COLON"
    /\ source[j].text[3].type = "NUMBER"
    /\ source[j].indent <= source[k].indent

\* No line of the source has a character that starts no token.
Tokenizable ==
    \A i \in DOMAIN source : \A n \in DOMAIN source[i].text : source[i].text[n].type # "ILLEGAL"

\* C18: parse_string of a source with an under-indented effect line ends by
\* raising LexerError or ParseError at that line: it neither returns an AST
\* nor fails to return.
C18_UnderIndentedEffectRaises ==
    \A k, j \in DOMAIN source :
       (Tokenizable /\ UnderIndentedEffect(k, j)) =>
          \/ phase \in {"lexing", "flush", "lexed"}
          \/ /\ phase = "raised"
             /\ outcome[1].line = j


(***************************************************************************)
(* The seed scenarios on the thermostat (specification SpecTick).          *)
(***************************************************************************)
\* The tick of thread t has made its selection on the thermostat with
\* threshold 0.3 in the state temperature = temp, fan_speed = fan.
ThermostatDecidedAt(t, temp, fan) ==
    /\ Decided(t)
    /\ system = Thermostat
    /\ config.action_threshold = Rat(3, 10)
    /\ {"temperature", "fan_speed"} \subseteq DOMAIN current
    /\ current["temperature"] = Int2R(temp)
    /\ current["fan_speed"] = Int2R(fan)

\* C19 (scenario S2): on the thermostat at temperature = 90, fan_speed = 30
\* exactly one violation is reported, critical and on max_temp, and the
\* selected action is increase_fan with level = 5.
C19_OverTemperature ==
    \A t \in Threads :
       ThermostatDecidedAt(t, 90, 30) =>
          /\ Len(frame[t].violations) = 1
          /\ frame[t].violations[1].violation = "critical"
          /\ frame[t].violations[1].constraint.name = "max_temp"
          /\ frame[t].selected # None
          /\ frame[t].selected[1].action.name = "increase_fan"
          /\ frame[t].selected[1].parameters = ("level" :> 5)

\* C20 (scenario S1): on the thermostat at temperature = 65, fan_speed = 30
\* no constraint is violated and the selected action is None.
C20_SteadyState ==
    \A t \in Threads :
       ThermostatDecidedAt(t, 65, 30) =>
          /\ frame[t].violations = <<>>
          /\ frame[t].selected = None

(***************************************************************************)
(* Claims about selection and candidates (specification SpecTick).         *)
(***************************************************************************)
\* The candidates selection is made over in the decided tick of thread t,
\* scored, in enumeration order.
Considered(t) ==
    ConsideredCandidates(ScoredCandidates(system, current), frame[t].violations)

\* C22: the selected candidate is the first, in enumeration order, of the
\* considered candidates that have the highest score.
C22_FirstOfTheBest ==
    \A t \in Threads :
       (Decided(t) /\ frame[t].selected # None) =>
          LET considered == Considered(t)
          IN  \E i \in DOMAIN considered :
                 /\ considered[i] = frame[t].selected[1]
                 /\ \A j \in DOMAIN considered :
                       /\ RLe(considered[j].score, considered[i].score)
                       /\ j < i => RLt(considered[j].score, considered[i].score)

\* C22 witness: a returned tick selected the minimum of a parameter whose
\* midpoint and maximum, and another action declared later, have the same
\* highest score.
C22_TieBroken ==
    \E t \in Threads :
       /\ Returned(t)
       /\ frame[t].selected # None
       /\ frame[t].selected[1].action.name = "first"
       /\ frame[t].selected[1].parameters = ("level" :> 1)
       /\ Len(Considered(t)) = 4
       /\ \A j \in DOMAIN Considered(t) :
             Considered(t)[j].score = frame[t].selected[1].score

\* The candidates the claim counts for one action: three for a single
\* parameter, one otherwise.
CandidateCount(action) == IF Len(action.parameters) = 1 THEN 3 ELSE 1

RECURSIVE CandidateTotal(_)
CandidateTotal(actions) ==
    IF actions = <<>> THEN 0 ELSE CandidateCount(Head(actions)) + CandidateTotal(Tail(actions))

\* The parameter maps the claim lists for one action.
ClaimedParameters(action) ==
    IF action.parameters = <<>> THEN << << >> >>
    ELSE IF Len(action.parameters) = 1
    THEN LET p == action.parameters[1]
         IN  << (p.name :> p.min_value),
                (p.name :> (p.min_value + p.max_value) \div 2),
                (p.name :> p.max_value) >>
    ELSE << [n \in {action.parameters[i].name : i \in DOMAIN action.parameters} |->
               LET p == CHOOSE p \in {action.parameters[i] : i \in DOMAIN action.parameters} :
                           p.name = n
               IN  (p.min_value + p.max_value) \div 2] >>

\* C23: the candidates of every action are those the claim lists, in that
\* order; candidates_evaluated is their number; a handler is called with a
\* map whose keys are the declared parameter names of its action and whose
\* values lie within the declared ranges.
C23_CandidatesAndParameters ==
    \A t \in Threads :
       Decided(t) =>
          /\ \A i \in DOMAIN system.actions :
                LET a == system.actions[i]
                    own == SelectSeq(GenerateCandidates(system), LAMBDA c : c.action = a)
                IN  [k \in DOMAIN own |-> own[k].parameters] = ClaimedParameters(a)
          /\ frame[t].candidates_evaluated = CandidateTotal(system.actions)
          /\ \A k \in DOMAIN frame[t].calls :
                LET call == frame[t].calls[k]
                    a == frame[t].selected[1].action
                IN  /\ call.name = a.name
                    /\ DOMAIN call.parameters = {a.parameters[i].name : i \in DOMAIN a.parameters}
                    /\ \A i \in DOMAIN a.parameters :
                          /\ a.parameters[i].min_value <= call.parameters[a.parameters[i].name]
                          /\ call.parameters[a.parameters[i].name] <= a.parameters[i].max_value

(***************************************************************************)
(* Claims about the state manager (specification SpecManager).             *)
(***************************************************************************)
\* The history holds the latest snapshots, at most SnapshotMax, oldest first.
LatestSnapshots ==
    /\ Len(snapshots) = (IF clock < SnapshotMax THEN clock ELSE SnapshotMax)
    /\ \A i \in DOMAIN snapshots : snapshots[i].timestamp = clock - Len(snapshots) + i - 1

\* A step leaves every snapshot that stays in the history as it was, and a
\* snapshot added by the step holds the values current had before it.
SnapshotsAreCopies ==
    /\ \A i \in DOMAIN snapshots : \A j \in DOMAIN snapshots' :
          snapshots'[j].timestamp = snapshots[i].timestamp => snapshots'[j] = snapshots[i]
    /\ clock' # clock =>
          /\ snapshots' # <<>>
          /\ snapshots'[Len(snapshots')] = StateSnapshot(clock, current)

\* C24: after any sequence of update, update_all and snapshot the history
\* holds at most 100 snapshots, the most recent ones in order of creation,
\* and every stored snapshot has the values current had when it was taken,
\* whatever was updated since.
C24_SnapshotRing == [](Len(snapshots) <= SnapshotMax /\ LatestSnapshots) /\ [][SnapshotsAreCopies]_vars

\* C24 witness: more than 100 snapshots were taken, the oldest are gone and
\* a snapshot in the history differs from the state updated since.
C24_OldestDropped ==
    /\ clock > SnapshotMax
    /\ Len(snapshots) = SnapshotMax
    /\ snapshots[1].timestamp > 0
    /\ \E i \in DOMAIN snapshots : snapshots[i].values # current
    /\ snapshots[Len(snapshots)].values # current

(***************************************************************************)
(* Claims about the text of an AST (specification SpecRoundTrip).          *)
(***************************************************************************)
\* C21: when parse_string accepted a source, parsing str(system) returns
\* an AST equal to the first.
C21_RoundTrip ==
    (first # None /\ phase \in {"parsed", "raised", "hang"})
       => /\ phase = "parsed"
          /\ system = first[1]

(***************************************************************************)
(* Claims about the order of the steps of a tick (specification SpecTick). *)
(***************************************************************************)
\* The names the system declares as states.
DeclaredStates == {system.states[i] : i \in DOMAIN system.states}

\* The readers the tick of thread t has called.
ReadersInvoked(t) == DOMAIN frame[t].values \cup frame[t].read_failed

\* The result of the tick of thread t is in the history.
ResultAppended(t) ==
    /\ frame[t].result # None
    /\ history # <<>>
    /\ history[Len(history)] = frame[t].result[1]

\* C25: in a tick the readers called are those registered for declared
\* states, all of them before the snapshot, which holds the values they
\* returned; the snapshot is taken before constraints are evaluated and an
\* action selected; a handler is called after the selection and before the
\* result is appended; observers are called after the result is appended.
C25_TickOrder ==
    LET f == frame[Main]
    IN  f.tick > 0 =>
           /\ ReadersInvoked(Main) \subseteq DeclaredStates
           /\ pc[Main] # "read" =>
                 ReadersInvoked(Main) = DeclaredStates \cap DOMAIN state_readers
           /\ pc[Main] \in {"read", "snapshot"} =>
                 /\ clock = f.tick - 1
                 /\ f.constraints = <<>> /\ f.selected = None /\ ~f.raised
           /\ pc[Main] \notin {"read", "snapshot"} =>
                 /\ clock = f.tick
                 /\ snapshots[Len(snapshots)].timestamp = f.tick - 1
                 /\ \A n \in DOMAIN f.values :
                       snapshots[Len(snapshots)].values[n] = f.values[n]
           /\ pc[Main] \in {"read", "snapshot", "decide"} =>
                 f.constraints = <<>> /\ f.selected = None
           /\ pc[Main] \in {"read", "snapshot", "decide", "execute"} => f.calls = <<>>
           /\ f.calls # <<>> => f.selected # None
           /\ pc[Main] \in {"read", "snapshot", "decide", "execute", "append"} =>
                 /\ f.result = None
                 /\ \A i \in DOMAIN history : history[i].tick # f.tick
           /\ f.delivered # <<>> => ResultAppended(Main)
           /\ pc[Main] \in {"compact", "notify"} =>
                 f.delivered = <<>> /\ ResultAppended(Main)

\* C25 witness: a tick that read a value, left the reader of an undeclared
\* name alone, called a handler and an observer, in its second round.
C25_FullTick ==
    /\ frame[Main].tick = 2
    /\ pc[Main] = "idle"
    /\ frame[Main].values # <<>>
    /\ DOMAIN state_readers \ DeclaredStates # {}
    /\ frame[Main].calls # <<>>
    /\ frame[Main].delivered # <<>>
    /\ ResultAppended(Main)

(***************************************************************************)
(* Claims about the token list (specification SpecParse).                  *)
(***************************************************************************)
\* How many of the first k tokens have the given type.
CountOf(type, k) == Cardinality({i \in 1..k : tokens[i].type = type})

\* tokenize() has returned.
Tokenized ==
    /\ phase \notin {"lexing", "flush"}
    /\ ~(phase = "raised" /\ outcome[1].raised = "LexerError")

\* The token list tokenize() returns: EOF once, at the end; as many DEDENT
\* as INDENT; in no prefix more DEDENT than INDENT.
Balanced ==
    /\ \A k \in 0..Len(tokens) : CountOf("DEDENT", k) <= CountOf("INDENT", k)
    /\ Tokenized =>
          /\ tokens # <<>>
          /\ tokens[Len(tokens)].type = "EOF"
          /\ CountOf("EOF", Len(tokens)) = 1
          /\ CountOf("DEDENT", Len(tokens)) = CountOf("INDENT", Len(tokens))

\* A step of the lexer over a blank or comment-only line, unless it raises,
\* leaves the indent stack as it was and adds at most the NEWLINE of the
\* line.
BlankLineSkipped ==
    (phase = "lexing" /\ line <= Len(source) /\ source[line].text = <<>>
       /\ phase' # "raised") =>
       /\ indent_stack' = indent_stack
       /\ \/ tokens' = tokens
          \/ tokens' = Append(tokens, Token("NEWLINE", "\n", line))

\* C26: the token list of tokenize() ends with its only EOF, has as many
\* DEDENT as INDENT, in no prefix more DEDENT than INDENT, and a blank or
\* comment-only line adds no INDENT or DEDENT and leaves the indent stack
\* unchanged.
C26_BalancedTokens == []Balanced /\ [][BlankLineSkipped]_vars

\* C27: Parser.parse ends on every token list tokenize() returns: it
\* returns a System or raises ParseError, and no loop of the parser repeats
\* an iteration that consumed no token.
C27_ParserTerminates ==
    (Tokenized /\ phase # "lexed") =>
       \/ phase \in {"parsed", "validated"} /\ outcome[1] = [returned |-> system]
       \/ phase = "raised" /\ outcome[1].raised = "ParseError"

(***************************************************************************)
(* Claims about the constraint-resolution score (specification SpecTick).  *)
(***************************************************************************)
\* The predicted effects of candidate c move the metric of a violated
\* constraint toward the side the constraint allows.
MovesViolatedMetric(c, violations) ==
    \E i \in DOMAIN violations :
       LET metric == violations[i].constraint.metric
           operator == violations[i].constraint.operator
       IN  /\ metric \in DOMAIN c.predicted_effects
           /\ \/ operator \in {"<=", "<"} /\ RLt(c.predicted_effects[metric], RZero)
              \/ operator \in {">=", ">"} /\ RLt(RZero, c.predicted_effects[metric])

\* C28: the constraint-resolution score of a candidate is never negative;
\* it is positive exactly when the candidate moves the metric of a violated
\* constraint in the right direction, and such a candidate is among those
\* selection is made over.
C28_ResolutionScore ==
    \A t \in Threads :
       Decided(t) =>
          LET sc == ScoredCandidates(system, current)
          IN  \A i \in DOMAIN sc :
                 /\ RLe(RZero, sc[i].constraint_resolution_score)
                 /\ RLt(RZero, sc[i].constraint_resolution_score)
                       <=> MovesViolatedMetric(sc[i], frame[t].violations)
                 /\ MovesViolatedMetric(sc[i], frame[t].violations)
                       => \E j \in DOMAIN Considered(t) : Considered(t)[j] = sc[i]

(***************************************************************************)
(* Claims about the tick counter and the history (specifications SpecTick  *)
(* and SpecLong).                                                          *)
(***************************************************************************)
\* C29: between ticks run one at a time, with n the number of ticks run,
\* the tick counter is n, the history holds the results of the latest ticks
\* in order, all n of them while n <= 1000 and between 500 and 1000 of them
\* afterwards, and get_last_tick() is None before the first tick and the
\* result of tick n after it.
C29_CounterAndHistory ==
    pc[Main] = "idle" =>
       /\ tick_count = frame[Main].tick
       /\ IF tick_count <= HistoryMax
          THEN Len(history) = tick_count
          ELSE HistoryKeep <= Len(history) /\ Len(history) <= HistoryMax
       /\ \A i \in DOMAIN history : history[i].tick = tick_count - Len(history) + i
       /\ GetLastTick(history) = (IF tick_count = 0 THEN None ELSE frame[Main].result)

(***************************************************************************)
(* Claims about driven mode (specification SpecRun).                       *)
(***************************************************************************)
\* run() has returned without a call of stop() only if it was given a
\* duration, has executed a tick and the duration is over; without a
\* duration it has returned only after stop().
ReturnsAtEndOfDuration ==
    \A w \in Workers :
       (pc[w] = "done" /\ ~stopped) =>
          /\ duration # None
          /\ frame[w].tick >= 1
          /\ elapsed >= duration[1]

\* When a tick of run(d) has ended and the time elapsed is d or more, the
\* next step of run is its return.
ReturnsAfterThatTick ==
    \A w \in Workers :
       (/\ pc[w] = "sleep" /\ pc'[w] # "sleep"
        /\ duration # None /\ elapsed >= duration[1]) => pc'[w] = "done"

\* C30: run(d), for every d >= 0, executes at least one tick and returns
\* without stop() after the first tick at whose end the time elapsed is d
\* or more; run() without a duration returns only through stop().
C30_DrivenModeEnds == []ReturnsAtEndOfDuration /\ [][ReturnsAfterThatTick]_vars

=============================================================================
